---- MODULE Spec2Model ----
(***************************************************************************)
(* A model of mdok's metrics derivation and session management: the        *)
(* session segmenter of output.go, the totals of stats.go, the rate        *)
(* calculator of docker.go and the collection loop of the Monitor.         *)
(*                                                                         *)
(* Time is counted in ticks of 1/TicksPerSec second, so that a timestamp   *)
(* has a sub-second part and Time.Unix() is a real conversion.  A uint64   *)
(* counter is a number modulo UintMod: TLC's integers are 32 bits wide, so *)
(* UintMod stands for 2^64 and counters are drawn well below it.           *)
(***************************************************************************)
EXTENDS Integers, Sequences, FiniteSets, TLC

VARIABLES
    data,           \* session functions: the ContainerData loaded from a file
    out,            \* session functions: the last call and what it returned
    series,         \* CalculateSummary: the samples handed to it
    summary,        \* CalculateSummary: what it returned
    clock,          \* monitor: the wall clock, in ticks
    run,            \* monitor: the Monitor.Run under way, and how far it got
    containerData,  \* monitor: Monitor.containerData[name] of the one container
    prevStats,      \* monitor: Monitor.prevStats[name]
    disk,           \* monitor: the container's JSON file in the data directory
    lastCall,       \* monitor: the last CollectStats call, its inputs and result
    args,           \* pure functions: the function called and its arguments
    result,         \* pure functions: what the call returned
    mainLoop,       \* collection loop: the goroutine of Monitor.Run, its position
    fetch,          \* collection loop: the goroutines of collectContainerStats
    mu,             \* collection loop: the holder of Monitor.mu
    reader,         \* collection loop: a caller of GetContainerData
    ui              \* selection TUI: the SelectionModel

vars == <<data, out, series, summary, clock, run, containerData, prevStats,
          disk, lastCall, args, result, mainLoop, fetch, mu, reader, ui>>
sessionVars == <<data, out>>
summaryVars == <<series, summary>>
monitorVars == <<clock, run, containerData, prevStats, disk, lastCall>>
callVars == <<args, result>>
loopVars == <<mainLoop, fetch, mu, reader>>
uiVars == <<ui>>

----------------------------------------------------------------------------
(* Bounds of the model *)

TicksPerSec == 2
MaxInterval == 2
MaxSamples == 3
CounterMax == 2
MaxRuns == 2
MaxTicks == 1
MonitorInterval == 1
UintMod == 65536
CpuMax == 2
MaxCPUs == 2
MaxConns == 2
MaxPeers == 2
MaxValues == 4
ValueMax == 3

(* Program constants *)

GapSlackSeconds == 5
GiB == 1073741824
PriceCentsPerGB == 9

----------------------------------------------------------------------------
(* Values *)

ZeroTime == -1
IsZero(t) == t = ZeroTime

\* Time.Unix(): whole seconds since the epoch
Unix(t) == t \div TicksPerSec

\* fmt.Sprintf("%d", n)
Sprintf(n) == ToString(n)

\* Duration.Round(time.Second), in seconds: halves round away from zero
RoundSeconds(d) ==
    IF d >= 0 THEN (2 * d + TicksPerSec) \div (2 * TicksPerSec)
    ELSE -((2 * (-d) + TicksPerSec) \div (2 * TicksPerSec))

\* a float64 that is the quotient of two integers
Rat(n, d) == [num |-> n, den |-> d]
ZeroRate == Rat(0, 1)
RatEq(a, b) == a.num * b.den = b.num * a.den
RatIsZero(a) == a.num = 0
RatIsNeg(a) == (a.num < 0 /\ a.den > 0) \/ (a.num > 0 /\ a.den < 0)

\* uint64 subtraction
USub(a, b) == (a - b) % UintMod

Sample(ts, rx, tx, rd, wr) ==
    [Timestamp |-> ts,
     NetRxBytes |-> rx, NetTxBytes |-> tx,
     NetRxRate |-> ZeroRate, NetTxRate |-> ZeroRate,
     BlockRead |-> rd, BlockWrite |-> wr,
     BlockReadRate |-> ZeroRate, BlockWriteRate |-> ZeroRate]

\* ContainerSummary.Duration before it is set
NoDuration == ZeroTime

NoSummary == [present |-> FALSE]
NoCost == [present |-> FALSE]

Last(s) == s[Len(s)]

\* no function called yet, and no result yet
NoArgs == [fn |-> "none"]
NoResult == [present |-> FALSE]

\* no Monitor.Run under way, nobody holding the mutex, no reader, no TUI
NoLoop == [pc |-> "none"]
NoHolder == ""
NoReader == [pc |-> "none"]
NoModel == [phase |-> "none"]

----------------------------------------------------------------------------
(* stats.go *)

\* CounterTotal without the reset branch
CounterTotalWrapping(first, last) == USub(last, first)

\* CalculateSummary returning &Summary{} for no samples, not nil
CalculateSummaryZeroOnEmpty(samples) ==
    [present |-> TRUE,
     SampleCount |-> Len(samples),
     NetRxTotal |-> 0, NetTxTotal |-> 0, BlockReadTotal |-> 0, BlockWriteTotal |-> 0,
     Duration |-> NoDuration]

\* one cumulative total of CalculateSummary: the delta between the first and
\* the last sample, or the last value after a counter reset
CounterTotal(first, last) ==
    IF last >= first THEN USub(last, first) ELSE last

CalculateSummary(samples) ==
    IF Len(samples) = 0 THEN NoSummary
    ELSE LET firstSample == samples[1]
             lastSample == Last(samples)
         IN [present |-> TRUE,
             SampleCount |-> Len(samples),
             NetRxTotal |-> CounterTotal(firstSample.NetRxBytes, lastSample.NetRxBytes),
             NetTxTotal |-> CounterTotal(firstSample.NetTxBytes, lastSample.NetTxBytes),
             BlockReadTotal |-> CounterTotal(firstSample.BlockRead, lastSample.BlockRead),
             BlockWriteTotal |-> CounterTotal(firstSample.BlockWrite, lastSample.BlockWrite),
             Duration |-> NoDuration]

\* the cost is kept in units of 1/(100 * GiB) dollar, which is exact
CalculateNetworkCost(egressBytes) ==
    [present |-> TRUE,
     Region |-> "us-east-1",
     EgressGB |-> Rat(egressBytes, GiB),
     IngressGB |-> 0,
     EstimatedCostCentGiB |-> egressBytes * PriceCentsPerGB,
     PricePerGBCents |-> PriceCentsPerGB]

----------------------------------------------------------------------------
(* output.go: sessions *)

SessionInfo(id, start, end, count, containers) ==
    [SessionID |-> id, ConfigName |-> "", StartTime |-> start, EndTime |-> end,
     SampleCount |-> count, Containers |-> containers]

\* time.Duration(data.Interval*2+5) * time.Second
maxGapOf(d) == (d.Interval * 2 + GapSlackSeconds) * TicksPerSec

\* GapExceeds with an inclusive threshold
GapExceedsInclusive(d, i) ==
    d.Samples[i].Timestamp - d.Samples[i - 1].Timestamp >= maxGapOf(d)

\* gap > maxGap between sample i-1 and sample i (i counted from 1)
GapExceeds(d, i) ==
    d.Samples[i].Timestamp - d.Samples[i - 1].Timestamp > maxGapOf(d)

\* the loop of splitIntoSessions: i walks the samples, sessionStart is the
\* first sample of the session being built
RECURSIVE splitLoop(_, _, _, _)
splitLoop(d, i, sessionStart, sessions) ==
    IF i > Len(d.Samples)
    THEN Append(sessions,
                SessionInfo(Sprintf(Unix(d.Samples[sessionStart].Timestamp)),
                            d.Samples[sessionStart].Timestamp,
                            Last(d.Samples).Timestamp,
                            Len(d.Samples) - sessionStart + 1,
                            <<>>))
    ELSE IF GapExceeds(d, i)
    THEN splitLoop(d, i + 1, i,
                   Append(sessions,
                          SessionInfo(Sprintf(Unix(d.Samples[sessionStart].Timestamp)),
                                      d.Samples[sessionStart].Timestamp,
                                      d.Samples[i - 1].Timestamp,
                                      i - sessionStart,
                                      <<>>)))
    ELSE splitLoop(d, i + 1, sessionStart, sessions)

splitIntoSessions(d) ==
    IF Len(d.Samples) = 0 THEN <<>>
    ELSE splitLoop(d, 2, 1, <<>>)

\* sessionStartIdx searching from the front: it stops at the oldest gap
sessionStartIdxForward(d, i) ==
    LET gaps == {j \in 2..Len(d.Samples) : GapExceeds(d, j)}
    IN IF gaps = {} THEN 1
       ELSE CHOOSE j \in gaps : \A k \in gaps : j <= k

\* sessionSummary handing back the summary the file already carries
sessionSummaryCached(d, samples) ==
    IF d.Summary.present THEN d.Summary ELSE CalculateSummary(samples)

\* "Recalculate summary for the current session only": the summary of a
\* filtered view is computed from the samples of the view
sessionSummary(d, samples) == CalculateSummary(samples)

\* the backward loop of filterToCurrentSession: the index of the first sample
\* of the most recent session, 1 when no gap is found
RECURSIVE sessionStartIdx(_, _)
sessionStartIdx(d, i) ==
    IF i <= 1 THEN 1
    ELSE IF GapExceeds(d, i) THEN i
    ELSE sessionStartIdx(d, i - 1)

filterToCurrentSession(d, now) ==
    IF Len(d.Samples) = 0 THEN d
    ELSE LET start == sessionStartIdx(d, Len(d.Samples))
         IN IF start > 1
            THEN LET samples == SubSeq(d.Samples, start, Len(d.Samples))
                     sum == sessionSummary(d, samples)
                     startTime == d.Samples[start].Timestamp
                     endTime == IF sum.present /\ IsZero(d.EndTime) THEN now
                                ELSE d.EndTime
                 IN [ContainerName |-> d.ContainerName,
                     SessionID |-> "",
                     StartTime |-> startTime,
                     EndTime |-> endTime,
                     Interval |-> d.Interval,
                     Samples |-> samples,
                     Summary |->
                         IF sum.present /\ ~IsZero(startTime) /\ ~IsZero(endTime)
                         THEN [sum EXCEPT !.Duration = RoundSeconds(endTime - startTime)]
                         ELSE sum,
                     NetworkCost |->
                         IF sum.present THEN CalculateNetworkCost(sum.NetTxTotal)
                         ELSE NoCost]
            ELSE d

\* samplesWithin leaving out the samples taken at the start instant
RECURSIVE samplesAfter(_, _, _)
samplesAfter(samples, start, end) ==
    IF Len(samples) = 0 THEN <<>>
    ELSE LET rest == samplesAfter(Tail(samples), start, end)
         IN IF Head(samples).Timestamp > start /\ ~(Head(samples).Timestamp > end)
            THEN <<Head(samples)>> \o rest
            ELSE rest

\* the samples whose timestamp lies within [start, end], in order
RECURSIVE samplesWithin(_, _, _)
samplesWithin(samples, start, end) ==
    IF Len(samples) = 0 THEN <<>>
    ELSE LET rest == samplesWithin(Tail(samples), start, end)
         IN IF ~(Head(samples).Timestamp < start) /\ ~(Head(samples).Timestamp > end)
            THEN <<Head(samples)>> \o rest
            ELSE rest

emptyResult(d, id) ==
    [ContainerName |-> d.ContainerName,
     SessionID |-> id,
     StartTime |-> ZeroTime,
     EndTime |-> ZeroTime,
     Interval |-> d.Interval,
     Samples |-> <<>>,
     Summary |-> NoSummary,
     NetworkCost |-> NoCost]

sessionResult(d, sess, sessionID) ==
    LET filtered == samplesWithin(d.Samples, sess.StartTime, sess.EndTime)
        sum == sessionSummary(d, filtered)
    IN [ContainerName |-> d.ContainerName,
        SessionID |-> sessionID,
        StartTime |-> sess.StartTime,
        EndTime |-> sess.EndTime,
        Interval |-> d.Interval,
        Samples |-> filtered,
        Summary |->
            IF sum.present
            THEN [sum EXCEPT !.Duration = RoundSeconds(sess.EndTime - sess.StartTime)]
            ELSE sum,
        NetworkCost |->
            IF sum.present THEN CalculateNetworkCost(sum.NetTxTotal) ELSE NoCost]

\* the lookup loop of filterToSession over the sessions of legacy data: the
\* first session whose identifier is the requested one
RECURSIVE findSession(_, _, _)
findSession(d, sessions, sessionID) ==
    IF Len(sessions) = 0 THEN emptyResult(d, "")
    ELSE IF Head(sessions).SessionID = sessionID
    THEN sessionResult(d, Head(sessions), sessionID)
    ELSE findSession(d, Tail(sessions), sessionID)

filterToSession(d, sessionID) ==
    IF Len(d.Samples) = 0 THEN d
    ELSE IF d.SessionID # ""
    THEN IF d.SessionID = sessionID THEN d ELSE emptyResult(d, d.SessionID)
    ELSE findSession(d, splitIntoSessions(d), sessionID)

\* appendUnique appends a string to a slice if it is not already present
appendUnique(slice, item) ==
    IF \E i \in 1..Len(slice) : slice[i] = item THEN slice ELSE Append(slice, item)

\* sessionsMap is kept as a sequence of SessionInfo with distinct identifiers
mapHas(m, id) == \E i \in 1..Len(m) : m[i].SessionID = id
mapIdx(m, id) == CHOOSE i \in 1..Len(m) : m[i].SessionID = id

\* a file with an explicit session identifier: one session, by identifier
addExplicit(m, configName, d) ==
    IF mapHas(m, d.SessionID)
    THEN LET i == mapIdx(m, d.SessionID)
             session == m[i]
         IN [m EXCEPT ![i] =
                [session EXCEPT
                    !.Containers = appendUnique(session.Containers, d.ContainerName),
                    !.StartTime = IF d.StartTime < session.StartTime
                                  THEN d.StartTime ELSE session.StartTime,
                    !.EndTime = IF d.EndTime > session.EndTime
                                THEN d.EndTime ELSE session.EndTime,
                    !.SampleCount = session.SampleCount + Len(d.Samples)]]
    ELSE Append(m, [SessionInfo(d.SessionID, d.StartTime, d.EndTime, Len(d.Samples),
                                <<d.ContainerName>>)
                    EXCEPT !.ConfigName = configName])

\* a legacy file: one session per run of samples between time gaps
RECURSIVE addLegacy(_, _, _, _)
addLegacy(m, configName, d, sessions) ==
    IF Len(sessions) = 0 THEN m
    ELSE LET sess == Head(sessions)
             sessionID == Sprintf(Unix(sess.StartTime))
             next ==
                IF mapHas(m, sessionID)
                THEN LET i == mapIdx(m, sessionID)
                     IN [m EXCEPT ![i] =
                            [m[i] EXCEPT
                                !.Containers = appendUnique(m[i].Containers, d.ContainerName),
                                !.SampleCount = m[i].SampleCount + sess.SampleCount]]
                ELSE Append(m, [SessionInfo(sessionID, sess.StartTime, sess.EndTime,
                                            sess.SampleCount, <<d.ContainerName>>)
                                EXCEPT !.ConfigName = configName])
         IN addLegacy(next, configName, d, Tail(sessions))

RECURSIVE collectSessions(_, _, _)
collectSessions(m, configName, files) ==
    IF Len(files) = 0 THEN m
    ELSE LET d == Head(files)
             next == IF Len(d.Samples) = 0 THEN m
                     ELSE IF d.SessionID # "" THEN addExplicit(m, configName, d)
                     ELSE addLegacy(m, configName, d, splitIntoSessions(d))
         IN collectSessions(next, configName, Tail(files))

\* sessions by start time, newest first; sessions that start at the same
\* instant keep the order the map gave them, which Go leaves open
RECURSIVE sortNewestFirst(_)
sortNewestFirst(sessions) ==
    IF Len(sessions) = 0 THEN <<>>
    ELSE LET i == CHOOSE i \in 1..Len(sessions) :
                    \A j \in 1..Len(sessions) :
                        sessions[j].StartTime <= sessions[i].StartTime
             rest == [k \in 1..(Len(sessions) - 1) |->
                        IF k < i THEN sessions[k] ELSE sessions[k + 1]]
         IN <<sessions[i]>> \o sortNewestFirst(rest)

GetAllSessions(configName, files) ==
    IF Len(files) = 0 THEN [err |-> TRUE, sessions |-> <<>>]
    ELSE [err |-> FALSE,
          sessions |-> sortNewestFirst(collectSessions(<<>>, configName, files))]

----------------------------------------------------------------------------
(* The session functions, applied to the files a data directory can hold *)

Intervals == 1..MaxInterval

\* time steps between two samples: none, a fraction of a second, and for each
\* interval the gap threshold itself and one tick more
Deltas ==
    {0, 1} \cup
    {(2 * i + GapSlackSeconds) * TicksPerSec + e : i \in Intervals, e \in {0, 1}}

RECURSIVE timestampsFrom(_, _)
timestampsFrom(t, deltas) ==
    IF Len(deltas) = 0 THEN <<t>>
    ELSE <<t>> \o timestampsFrom(t + Head(deltas), Tail(deltas))

TimestampSeqs ==
    {<<>>} \cup
    UNION {{timestampsFrom(t, ds) : t \in {0, 1}, ds \in [1..n -> Deltas]} :
           n \in 0..(MaxSamples - 1)}

\* cumulative counters that rise and fall back along the series
sampleAt(ts, i) ==
    Sample(ts[i],
           ts[i] % (CounterMax + 1),
           (ts[i] + i) % (CounterMax + 1),
           i % (CounterMax + 1),
           (2 * i) % (CounterMax + 1))

\* the file Monitor.saveData and Monitor.shutdown leave behind: shutdown
\* caches the summary of the whole series, saveData caches nothing
fileOf(interval, ts, id, cached) ==
    LET samples == [i \in 1..Len(ts) |-> sampleAt(ts, i)]
        startTime == IF Len(ts) = 0 THEN 0 ELSE ts[1]
        endTime == IF Len(ts) = 0 THEN 0 ELSE Last(ts)
        sum == CalculateSummary(samples)
    IN [ContainerName |-> "web",
        SessionID |-> id,
        StartTime |-> startTime,
        EndTime |-> endTime,
        Interval |-> interval,
        Samples |-> samples,
        Summary |->
            IF cached /\ sum.present
            THEN [sum EXCEPT !.Duration = RoundSeconds(endTime - startTime)]
            ELSE NoSummary,
        NetworkCost |->
            IF cached /\ sum.present THEN CalculateNetworkCost(sum.NetTxTotal)
            ELSE NoCost]

\* interval 5 s and samples at 0, 5, 10, 120 and 125 s
ExampleFile ==
    fileOf(5, <<0, 5 * TicksPerSec, 10 * TicksPerSec, 120 * TicksPerSec,
                125 * TicksPerSec>>, "", FALSE)

\* the identifiers a caller asks filterToSession for
RequestIDs(d) ==
    {Sprintf(Unix(d.Samples[i].Timestamp)) : i \in 1..Len(d.Samples)}
    \cup {"s1", "nosuch"}

NoCall == [op |-> "none", id |-> "", res |-> <<>>]

InitSession ==
    /\ \/ \E i \in Intervals, ts \in TimestampSeqs, id \in {"", "s1"},
             cached \in BOOLEAN :
               data = fileOf(i, ts, id, cached)
       \/ data = ExampleFile
    /\ out = NoCall

SplitIntoSessions ==
    /\ out' = [op |-> "splitIntoSessions", id |-> "", res |-> splitIntoSessions(data)]
    /\ UNCHANGED data

FilterToCurrentSession ==
    /\ out' = [op |-> "filterToCurrentSession", id |-> "",
               res |-> filterToCurrentSession(data, data.EndTime)]
    /\ UNCHANGED data

FilterToSession ==
    \E id \in RequestIDs(data) :
        /\ out' = [op |-> "filterToSession", id |-> id,
                   res |-> filterToSession(data, id)]
        /\ UNCHANGED data

ListSessions ==
    /\ out' = [op |-> "GetAllSessions", id |-> "",
               res |-> GetAllSessions("cfg", <<data>>)]
    /\ UNCHANGED data

----------------------------------------------------------------------------
(* CalculateSummary, applied to sample sequences *)

CounterValues == 0..CounterMax

\* the two network counters are drawn freely; the block counters mirror them
\* so that the four counters rise and reset in different samples
counterSample(i, rx, tx) == Sample(i, rx, tx, CounterMax - rx, CounterMax - tx)

\* cumulative tx of 200, 300, then 50 after a reset
ExampleSeries ==
    <<Sample(0, 200, 200, 200, 200), Sample(1, 300, 300, 300, 300),
      Sample(2, 50, 50, 50, 50)>>

InitSummary ==
    /\ \/ \E n \in 0..MaxSamples :
            \E rx \in [1..n -> CounterValues], tx \in [1..n -> CounterValues] :
                series = [i \in 1..n |-> counterSample(i, rx[i], tx[i])]
       \/ series = ExampleSeries
    /\ summary = NoSummary

Summarize ==
    /\ summary' = CalculateSummary(series)
    /\ UNCHANGED series

----------------------------------------------------------------------------
(* docker.go: the rate calculator *)

NoStats == [present |-> FALSE]

\* elapsedPositive letting an elapsed time of zero through
elapsedNonNegative(elapsed) == elapsed >= 0

\* the rates are computed only over a positive elapsed time
elapsedPositive(elapsed) == elapsed > 0

\* float64(cur - prev) / elapsed, with cur and prev uint64 and elapsed the
\* seconds between the two timestamps
rateOf(cur, prevCounter, elapsed) ==
    Rat(USub(cur, prevCounter) * TicksPerSec, elapsed)

\* stats is the snapshot the runtime returned (ok = FALSE: the call or the
\* decoding failed), now is time.Now(), prev the caller's previous result
CollectStats(stats, now, prev) ==
    IF ~stats.ok THEN [err |-> TRUE, result |-> NoStats]
    ELSE LET elapsed == now - prev.Sample.Timestamp
             netRates == prev.present /\ prev.PrevNetRx > 0 /\ elapsedPositive(elapsed)
             blockRates == prev.present /\ prev.PrevBlockRd > 0 /\ elapsedPositive(elapsed)
         IN [err |-> FALSE,
             result |->
                [present |-> TRUE,
                 Sample |->
                    [Timestamp |-> now,
                     NetRxBytes |-> stats.rx,
                     NetTxBytes |-> stats.tx,
                     NetRxRate |-> IF netRates THEN rateOf(stats.rx, prev.PrevNetRx, elapsed)
                                   ELSE ZeroRate,
                     NetTxRate |-> IF netRates THEN rateOf(stats.tx, prev.PrevNetTx, elapsed)
                                   ELSE ZeroRate,
                     BlockRead |-> stats.rd,
                     BlockWrite |-> stats.wr,
                     BlockReadRate |->
                        IF blockRates THEN rateOf(stats.rd, prev.PrevBlockRd, elapsed)
                        ELSE ZeroRate,
                     BlockWriteRate |->
                        IF blockRates THEN rateOf(stats.wr, prev.PrevBlockWr, elapsed)
                        ELSE ZeroRate],
                 PrevNetRx |-> stats.rx,
                 PrevNetTx |-> stats.tx,
                 PrevBlockRd |-> stats.rd,
                 PrevBlockWr |-> stats.wr]]

----------------------------------------------------------------------------
(* types.go: the Monitor, for one configured container *)

NoData == [present |-> FALSE]
Some(d) == [present |-> TRUE, d |-> d]

NoCollect == [present |-> FALSE]

\* initializeContainers: a fresh, empty series for a container that resolves
initializeContainers(found, now) ==
    IF found
    THEN Some([ContainerName |-> "web",
               SessionID |-> "",
               StartTime |-> now,
               EndTime |-> ZeroTime,
               Interval |-> MonitorInterval,
               Samples |-> <<>>,
               Summary |-> NoSummary,
               NetworkCost |-> NoCost])
    ELSE NoData

\* collectContainerStats: the new containerData entry, prevStats entry and
\* the CollectStats call made, if one was made
collectContainerStats(cd, prev, isRunning, stats, now) ==
    IF ~cd.present \/ ~isRunning
    THEN [cd |-> cd, prev |-> prev, call |-> NoCollect]
    ELSE LET r == CollectStats(stats, now, prev)
             call == [present |-> TRUE, prev |-> prev, stats |-> stats, now |-> now,
                      res |-> r.result]
         IN IF r.err
            THEN [cd |-> cd, prev |-> prev, call |-> call]
            ELSE [cd |-> Some([cd.d EXCEPT !.Samples = Append(@, r.result.Sample)]),
                  prev |-> r.result,
                  call |-> call]

\* SaveContainerData: the file of the container is written anew
SaveContainerData(file, d) == Some(d)

\* saveData: the series is stamped and written when it has samples
saveData(cd, file, now) ==
    IF ~cd.present \/ Len(cd.d.Samples) = 0
    THEN [cd |-> cd, disk |-> file]
    ELSE LET d == [cd.d EXCEPT !.EndTime = now]
         IN [cd |-> Some(d), disk |-> SaveContainerData(file, d)]

\* collectAllStats: the fetch of the container, then saveData
collectAllStats(cd, prev, file, isRunning, stats, now) ==
    LET c == collectContainerStats(cd, prev, isRunning, stats, now)
        s == saveData(c.cd, file, now)
    IN [cd |-> s.cd, prev |-> c.prev, call |-> c.call, disk |-> s.disk]

\* shutdown: the final summary, written with the series
shutdown(cd, file, now) ==
    IF ~cd.present \/ Len(cd.d.Samples) = 0
    THEN [cd |-> cd, disk |-> file]
    ELSE LET sum == CalculateSummary(cd.d.Samples)
             d == [cd.d EXCEPT
                     !.EndTime = now,
                     !.Summary = [sum EXCEPT
                                    !.Duration = RoundSeconds(now - cd.d.StartTime)],
                     !.NetworkCost = CalculateNetworkCost(sum.NetTxTotal)]
         IN [cd |-> Some(d), disk |-> SaveContainerData(file, d)]

\* what the runtime answers to one fetch: rx and wr rise where tx and rd fall
StatsInputs ==
    {[ok |-> FALSE, rx |-> 0, tx |-> 0, rd |-> 0, wr |-> 0]} \cup
    {[ok |-> TRUE, rx |-> a, tx |-> CounterMax - a, rd |-> CounterMax - a, wr |-> a] :
        a \in CounterValues}

\* IsContainerRunning and the fetch: the container is not running, or the
\* runtime answers
Fetches ==
    {[isRunning |-> FALSE, stats |-> [ok |-> FALSE, rx |-> 0, tx |-> 0, rd |-> 0, wr |-> 0]]}
    \cup {[isRunning |-> TRUE, stats |-> st] : st \in StatsInputs}

\* the clock between two ticks: it may read the same instant again
TickDeltas == {0, MonitorInterval * TicksPerSec}

InitMonitor ==
    /\ clock = 0
    /\ run = [alive |-> FALSE, n |-> 0, ticks |-> 0]
    /\ containerData = NoData
    /\ prevStats = NoStats
    /\ disk = NoData
    /\ lastCall = NoCollect

\* NewMonitor and Monitor.Run up to its loop, some time after the last run
\* ended: empty maps, initializeContainers and the initial collection
Start ==
    /\ ~run.alive
    /\ run.n < MaxRuns
    /\ \E dt \in TickDeltas, found \in BOOLEAN, f \in Fetches :
        LET c == collectAllStats(initializeContainers(found, clock + dt), NoStats,
                                 disk, f.isRunning, f.stats, clock + dt)
        IN /\ clock' = clock + dt
           /\ containerData' = c.cd
           /\ prevStats' = c.prev
           /\ disk' = c.disk
           /\ lastCall' = IF c.call.present THEN c.call ELSE lastCall
    /\ run' = [alive |-> TRUE, n |-> run.n + 1, ticks |-> 0]

\* case <-ticker.C
Tick ==
    /\ run.alive
    /\ run.ticks < MaxTicks
    /\ \E dt \in TickDeltas, f \in Fetches :
        LET c == collectAllStats(containerData, prevStats, disk, f.isRunning, f.stats,
                                 clock + dt)
        IN /\ clock' = clock + dt
           /\ containerData' = c.cd
           /\ prevStats' = c.prev
           /\ disk' = c.disk
           /\ lastCall' = IF c.call.present THEN c.call ELSE lastCall
    /\ run' = [run EXCEPT !.ticks = @ + 1]

\* case <-sigChan, case <-m.stopChan
Shutdown ==
    /\ run.alive
    /\ LET s == shutdown(containerData, disk, clock)
       IN /\ containerData' = s.cd
          /\ disk' = s.disk
    /\ run' = [run EXCEPT !.alive = FALSE]
    /\ UNCHANGED <<clock, prevStats, lastCall>>

----------------------------------------------------------------------------
(* Specifications *)

idleSession == data = fileOf(MonitorInterval, <<>>, "", FALSE) /\ out = NoCall
idleSummary == series = <<>> /\ summary = NoSummary
idleCall == args = NoArgs /\ result = NoResult
idleLoop == mainLoop = NoLoop /\ fetch = <<>> /\ mu = NoHolder /\ reader = NoReader
idleUI == ui = NoModel

InitS == InitSession /\ idleSummary /\ InitMonitor /\ idleLoop /\ idleUI
         /\ idleCall
NextS ==
    \/ SplitIntoSessions /\ UNCHANGED <<summaryVars, monitorVars, loopVars, uiVars, callVars>>
    \/ FilterToCurrentSession /\ UNCHANGED <<summaryVars, monitorVars, loopVars, uiVars, callVars>>
    \/ FilterToSession /\ UNCHANGED <<summaryVars, monitorVars, loopVars, uiVars, callVars>>
    \/ ListSessions /\ UNCHANGED <<summaryVars, monitorVars, loopVars, uiVars, callVars>>
SpecSession == InitS /\ [][NextS]_vars

InitT == idleSession /\ InitSummary /\ InitMonitor /\ idleLoop /\ idleUI
         /\ idleCall
NextT == Summarize /\ UNCHANGED <<sessionVars, monitorVars, loopVars, uiVars, callVars>>
SpecSummary == InitT /\ [][NextT]_vars

InitM == idleSession /\ idleSummary /\ InitMonitor /\ idleLoop /\ idleUI
         /\ idleCall
NextM ==
    \/ Start /\ UNCHANGED <<sessionVars, summaryVars, callVars, loopVars, uiVars>>
    \/ Tick /\ UNCHANGED <<sessionVars, summaryVars, callVars, loopVars, uiVars>>
    \/ Shutdown /\ UNCHANGED <<sessionVars, summaryVars, callVars, loopVars, uiVars>>
SpecMonitor == InitM /\ [][NextM]_vars

Init == InitM
Next == NextM
Spec == SpecMonitor

----------------------------------------------------------------------------
(* docker.go: the CPU percentage of CollectStats *)

CounterReadings == 0..CpuMax

\* the CPU part of a decoded StatsJSON: the cumulative counters, the previous
\* values embedded in the snapshot, OnlineCPUs and len(PercpuUsage)
CpuInputs ==
    [cpu : CounterReadings, precpu : CounterReadings,
     sys : CounterReadings, presys : CounterReadings,
     online : 0..MaxCPUs, percpu : 0..MaxCPUs]

numCPUsOf(st) ==
    IF st.online # 0 THEN st.online
    ELSE IF st.percpu # 0 THEN st.percpu
    ELSE 1

\* cpuDelta and systemDelta are float64 of a uint64 difference
cpuPercentOf(st) ==
    LET cpuDelta == USub(st.cpu, st.precpu)
        systemDelta == USub(st.sys, st.presys)
    IN IF systemDelta > 0 /\ cpuDelta > 0
       THEN Rat(cpuDelta * numCPUsOf(st) * 100, systemDelta)
       ELSE ZeroRate

InitCPU ==
    /\ \E st \in CpuInputs : args = [fn |-> "CollectStats", st |-> st]
    /\ result = NoResult

CollectCPU ==
    /\ args.fn = "CollectStats"
    /\ result' = [present |-> TRUE, CPUPercent |-> cpuPercentOf(args.st)]
    /\ UNCHANGED args

InitC == idleSession /\ idleSummary /\ InitMonitor /\ idleLoop /\ idleUI
         /\ InitCPU
NextC == CollectCPU /\ UNCHANGED <<sessionVars, summaryVars, monitorVars, loopVars, uiVars>>
SpecCPU == InitC /\ [][NextC]_vars

----------------------------------------------------------------------------
(* docker.go: proxy detection.  A Go string is a sequence of characters. *)

UpperChars == <<"A", "B", "C", "D", "E", "F", "G", "H", "I", "J", "K", "L", "M", "N", "O", "P", "Q", "R", "S", "T", "U", "V", "W", "X", "Y", "Z">>
LowerChars == <<"a", "b", "c", "d", "e", "f", "g", "h", "i", "j", "k", "l", "m", "n", "o", "p", "q", "r", "s", "t", "u", "v", "w", "x", "y", "z">>

\* unicode.ToLower of one ASCII character
lowerChar(c) ==
    IF \E i \in 1..Len(UpperChars) : UpperChars[i] = c
    THEN LowerChars[CHOOSE i \in 1..Len(UpperChars) : UpperChars[i] = c]
    ELSE c

\* strings.ToLower
ToLower(s) == [i \in 1..Len(s) |-> lowerChar(s[i])]

\* strings.Contains
Contains(s, substr) ==
    \E i \in 0..(Len(s) - Len(substr)) : SubSeq(s, i + 1, i + Len(substr)) = substr

\* strings.EqualFold, on ASCII strings
EqualFold(s, t) == ToLower(s) = ToLower(t)

proxyImagePatterns ==
    <<<<"t", "r", "a", "e", "f", "i", "k">>,
      <<"n", "g", "i", "n", "x">>,
      <<"c", "a", "d", "d", "y">>,
      <<"h", "a", "p", "r", "o", "x", "y">>,
      <<"e", "n", "v", "o", "y">>,
      <<"l", "i", "t", "e", "l", "l", "m">>>>

\* a container.Summary: Labels holds the mdok.proxy label, when there is one
Summary(id, hasLabel, val, image, names, networks) ==
    [ID |-> id, Labels |-> [has |-> hasLabel, val |-> val], Image |-> image,
     Names |-> names, Networks |-> networks]

\* hasProxyLabel taking the label into account only when it does not say no
hasProxyLabelUnlessFalse(c) ==
    /\ c.Labels.has
    /\ ~(\/ EqualFold(c.Labels.val, <<"f", "a", "l", "s", "e">>)
         \/ EqualFold(c.Labels.val, <<"n", "o">>)
         \/ EqualFold(c.Labels.val, <<"0">>))

\* val, ok := c.Labels[proxyLabelKey]; ok
hasProxyLabel(c) == c.Labels.has

isProxyContainer(c) ==
    IF hasProxyLabel(c)
    THEN IF \/ EqualFold(c.Labels.val, <<"f", "a", "l", "s", "e">>)
            \/ EqualFold(c.Labels.val, <<"n", "o">>)
            \/ EqualFold(c.Labels.val, <<"0">>)
         THEN FALSE
         ELSE \/ EqualFold(c.Labels.val, <<"t", "r", "u", "e">>)
              \/ EqualFold(c.Labels.val, <<"1">>)
              \/ EqualFold(c.Labels.val, <<"y", "e", "s">>)
    ELSE \/ \E p \in 1..Len(proxyImagePatterns) :
                Contains(ToLower(c.Image), proxyImagePatterns[p])
         \/ \E n \in 1..Len(c.Names) : \E p \in 1..Len(proxyImagePatterns) :
                Contains(ToLower(c.Names[n]), proxyImagePatterns[p])

\* label values, images and name lists of the containers a host runs
LabelValues ==
    {<<>>,
     <<"f", "a", "l", "s", "e">>,
     <<"F", "a", "l", "s", "e">>,
     <<"N", "O">>,
     <<"0">>,
     <<"t", "r", "u", "e">>,
     <<"T", "R", "U", "E">>,
     <<"1">>,
     <<"Y", "e", "s">>,
     <<"m", "a", "y", "b", "e">>}
Images ==
    {<<"n", "g", "i", "n", "x">>,
     <<"N", "g", "i", "n", "x", ":", "1">>,
     <<"r", "e", "d", "i", "s">>,
     <<"m", "y", "/", "e", "n", "v", "o", "y">>,
     <<"n", "g", "i", "n">>}
NameLists ==
    {<<>>,
     <<<<"/", "w", "e", "b">>>>,
     <<<<"/", "w", "e", "b">>, <<"/", "C", "a", "d", "d", "y", "2">>>>,
     <<<<"/", "h", "a", "p", "r", "o", "x">>>>}

InitProxy ==
    /\ \E hasLabel \in BOOLEAN, val \in LabelValues, image \in Images,
          names \in NameLists :
            /\ (~hasLabel => val = <<>>)
            /\ args = [fn |-> "isProxyContainer",
                       c |-> Summary("c1", hasLabel, val, image, names, <<>>)]
    /\ result = NoResult

IsProxyContainer ==
    /\ args.fn = "isProxyContainer"
    /\ result' = [present |-> TRUE, proxy |-> isProxyContainer(args.c)]
    /\ UNCHANGED args

InitP == idleSession /\ idleSummary /\ InitMonitor /\ idleLoop /\ idleUI
         /\ InitProxy
NextP == IsProxyContainer /\ UNCHANGED <<sessionVars, summaryVars, monitorVars, loopVars, uiVars>>
SpecProxy == InitP /\ [][NextP]_vars

----------------------------------------------------------------------------
(* docker.go: addresses.  A net.IP is a sequence of 4 or 16 bytes. *)

NilIP == <<>>

\* the 16-byte form of an IPv4 address
V4Mapped(ip4) == <<0, 0, 0, 0, 0, 0, 0, 0, 0, 0, 255, 255>> \o ip4

\* net.IP.To4
To4(ip) ==
    IF Len(ip) = 4 THEN ip
    ELSE IF Len(ip) = 16 /\ (\A i \in 1..10 : ip[i] = 0) /\ ip[11] = 255 /\ ip[12] = 255
    THEN SubSeq(ip, 13, 16)
    ELSE NilIP

\* the IPv6 addresses the model names, with the text net.IP.String gives them
V6Texts ==
    <<[ip |-> [i \in 1..16 |-> 0], text |-> "::"],
      [ip |-> [i \in 1..16 |-> IF i = 16 THEN 1 ELSE 0], text |-> "::1"],
      [ip |-> [i \in 1..16 |-> IF i = 1 THEN 253 ELSE IF i = 16 THEN 3 ELSE 0],
       text |-> "fd00::3"],
      [ip |-> [i \in 1..16 |-> IF i = 1 THEN 254 ELSE IF i = 2 THEN 128
                                ELSE IF i = 16 THEN 1 ELSE 0],
       text |-> "fe80::1"],
      [ip |-> [i \in 1..16 |-> IF i = 1 THEN 32 ELSE IF i = 2 THEN 1
                                ELSE IF i = 3 THEN 13 ELSE IF i = 4 THEN 184
                                ELSE IF i = 16 THEN 1 ELSE 0],
       text |-> "2001:db8::1"]>>

\* net.IP.String
String(ip) ==
    IF To4(ip) # NilIP
    THEN LET p == To4(ip)
         IN ToString(p[1]) \o "." \o ToString(p[2]) \o "." \o ToString(p[3])
                \o "." \o ToString(p[4])
    ELSE IF \E k \in 1..Len(V6Texts) : V6Texts[k].ip = ip
    THEN V6Texts[CHOOSE k \in 1..Len(V6Texts) : V6Texts[k].ip = ip].text
    ELSE "?"

\* the addresses connections of the model go to
V4Addrs ==
    {<<0, 0, 0, 0>>, <<127, 0, 0, 1>>, <<10, 0, 0, 5>>, <<172, 18, 0, 3>>,
     <<172, 18, 0, 4>>, <<172, 32, 0, 1>>, <<192, 168, 1, 7>>, <<169, 254, 1, 1>>,
     <<224, 0, 0, 251>>, <<8, 8, 8, 8>>}
V6Addrs == {V6Texts[k].ip : k \in 1..Len(V6Texts)}
KnownIPs == V4Addrs \cup V6Addrs

\* net.ParseIP: the 16-byte address the text stands for, nil for other text
ParseIP(text) ==
    IF \E ip \in KnownIPs : String(ip) = text
    THEN LET ip == CHOOSE ip \in KnownIPs : String(ip) = text
         IN IF Len(ip) = 4 THEN V4Mapped(ip) ELSE ip
    ELSE NilIP

\* net.IP.IsUnspecified
IsUnspecified(ip) ==
    To4(ip) = <<0, 0, 0, 0>> \/ ip = [i \in 1..16 |-> 0]

\* net.IP.IsLoopback
IsLoopback(ip) ==
    IF To4(ip) # NilIP THEN To4(ip)[1] = 127
    ELSE ip = [i \in 1..16 |-> IF i = 16 THEN 1 ELSE 0]

\* net.IP.IsLinkLocalUnicast
IsLinkLocalUnicast(ip) ==
    IF To4(ip) # NilIP THEN To4(ip)[1] = 169 /\ To4(ip)[2] = 254
    ELSE Len(ip) = 16 /\ ip[1] = 254 /\ ip[2] \div 64 = 2

\* net.IP.IsLinkLocalMulticast
IsLinkLocalMulticast(ip) ==
    IF To4(ip) # NilIP THEN To4(ip)[1] = 224 /\ To4(ip)[2] = 0 /\ To4(ip)[3] = 0
    ELSE Len(ip) = 16 /\ ip[1] = 255 /\ ip[2] % 16 = 2

privateBlocks ==
    <<[ip |-> <<10, 0, 0, 0>>, ones |-> 8],
      [ip |-> <<172, 16, 0, 0>>, ones |-> 12],
      [ip |-> <<192, 168, 0, 0>>, ones |-> 16],
      [ip |-> <<169, 254, 0, 0>>, ones |-> 16],
      [ip |-> [i \in 1..16 |-> IF i = 1 THEN 252 ELSE 0], ones |-> 7],
      [ip |-> [i \in 1..16 |-> IF i = 1 THEN 254 ELSE IF i = 2 THEN 128 ELSE 0],
       ones |-> 10]>>

\* the number a byte is divided by to keep the bits of it a mask of ones
\* leading bits covers, the byte being the i-th of the address
maskShift(ones, i) ==
    LET bits == IF ones >= 8 * i THEN 8
                ELSE IF ones <= 8 * (i - 1) THEN 0
                ELSE ones - 8 * (i - 1)
    IN 2 ^ (8 - bits)

\* net.IPNet.Contains
subnetContains(block, ip) ==
    LET x == IF To4(ip) # NilIP THEN To4(ip) ELSE ip
    IN /\ Len(x) = Len(block.ip)
       /\ \A i \in 1..Len(x) :
            x[i] \div maskShift(block.ones, i) = block.ip[i] \div maskShift(block.ones, i)

isPrivateIP(ip) ==
    \/ IsLoopback(ip) \/ IsLinkLocalUnicast(ip) \/ IsLinkLocalMulticast(ip)
    \/ \E b \in 1..Len(privateBlocks) : subnetContains(privateBlocks[b], ip)

\* binary.LittleEndian.PutUint32 of a parsed group of four hex bytes
reverse4(h, g) == <<h[4 * g + 4], h[4 * g + 3], h[4 * g + 2], h[4 * g + 1]>>

\* parseHexIP: hexIP is given as its bytes in the order they are written,
\* two hex digits each
parseHexIP(hexIP) ==
    IF Len(hexIP) = 4 THEN reverse4(hexIP, 0)
    ELSE IF Len(hexIP) = 16
    THEN reverse4(hexIP, 0) \o reverse4(hexIP, 1) \o reverse4(hexIP, 2) \o reverse4(hexIP, 3)
    ELSE NilIP

----------------------------------------------------------------------------
(* docker.go: classification of connections and conntrack flows *)

\* classOf looking the destination up among the containers first
classOfContainersFirst(key, ip, containerIPs, proxyIPs) ==
    IF key \in containerIPs THEN 1
    ELSE IF key \in proxyIPs THEN 3
    ELSE IF isPrivateIP(ip) THEN 2
    ELSE 3

\* the class of a destination: 1 inter-container, 2 internal, 3 internet
classOf(key, ip, containerIPs, proxyIPs) ==
    IF key \in proxyIPs THEN 3
    ELSE IF key \in containerIPs THEN 1
    ELSE IF isPrivateIP(ip) THEN 2
    ELSE 3

\* a line of /proc/net/tcp: the number of its fields, the number of parts
\* its remote_address splits into at ":", and the hex address
ProcLine(fields, parts, hexIP) == [fields |-> fields, parts |-> parts, hexIP |-> hexIP]

\* the scanner loop of readProcNetFile, at line lineNum
RECURSIVE procLoop(_, _, _, _, _)
procLoop(lines, lineNum, counts, containerIPs, proxyIPs) ==
    IF lineNum > Len(lines) THEN counts
    ELSE LET line == lines[lineNum]
             ip == parseHexIP(line.hexIP)
             next ==
                IF lineNum = 1 THEN counts
                ELSE IF line.fields < 3 THEN counts
                ELSE IF line.parts # 2 THEN counts
                ELSE IF ip = NilIP THEN counts
                ELSE IF IsUnspecified(ip) THEN counts
                ELSE LET k == classOf(String(ip), ip, containerIPs, proxyIPs)
                     IN [counts EXCEPT ![k] = @ + 1]
         IN procLoop(lines, lineNum + 1, next, containerIPs, proxyIPs)

\* file.err: the exec of cat could not be created or attached
readProcNetFile(file, containerIPs, proxyIPs) ==
    IF file.err THEN [err |-> TRUE, counts |-> <<0, 0, 0>>]
    ELSE [err |-> FALSE,
          counts |-> procLoop(file.lines, 1, <<0, 0, 0>>, containerIPs, proxyIPs)]

\* a line of /proc/net/nf_conntrack: whether it holds "src=" and "bytes=",
\* the text of its first src= and dst= fields, and its first bytes= field
Flow(marked, src, dst, bytesOk, byteCount) ==
    [marked |-> marked, src |-> src, dst |-> dst, bytesOk |-> bytesOk,
     byteCount |-> byteCount]

\* the scanner loop of readConntrackBytes
RECURSIVE conntrackLoop(_, _, _, _, _, _)
conntrackLoop(flows, i, bytes, containerIPs, proxyIPs, selfIPs) ==
    IF i > Len(flows) THEN bytes
    ELSE LET f == flows[i]
             ip == ParseIP(f.dst)
             next ==
                IF ~f.marked THEN bytes
                ELSE IF f.src = "" \/ f.src \notin selfIPs THEN bytes
                ELSE IF f.dst = "" THEN bytes
                ELSE IF ~f.bytesOk THEN bytes
                ELSE IF ip = NilIP THEN bytes
                ELSE LET k == classOf(f.dst, ip, containerIPs, proxyIPs)
                     IN [bytes EXCEPT ![k] = (@ + f.byteCount) % UintMod]
         IN conntrackLoop(flows, i + 1, next, containerIPs, proxyIPs, selfIPs)

readConntrackBytes(table, containerIPs, proxyIPs, selfIPs) ==
    IF table.err THEN [err |-> TRUE, bytes |-> <<0, 0, 0>>]
    ELSE [err |-> FALSE,
          bytes |-> conntrackLoop(table.flows, 1, <<0, 0, 0>>, containerIPs, proxyIPs,
                                  selfIPs)]

\* how the kernel writes an address in /proc/net/tcp and /proc/net/tcp6
hexOf(ip) == parseHexIP(ip)

HeaderLine == ProcLine(12, 1, <<>>)

\* the lines a connection table can hold: one per destination, an IPv4
\* destination also as the IPv4-mapped address of a tcp6 table, a line cut
\* short, a remote address without a port and an address of a wrong length
LineChoices ==
    {ProcLine(17, 2, hexOf(ip)) : ip \in KnownIPs}
    \cup {ProcLine(17, 2, hexOf(V4Mapped(ip))) :
            ip \in {<<172, 18, 0, 3>>, <<8, 8, 8, 8>>, <<0, 0, 0, 0>>}}
    \cup {ProcLine(2, 2, hexOf(<<8, 8, 8, 8>>)),
          ProcLine(17, 1, hexOf(<<8, 8, 8, 8>>)),
          ProcLine(17, 2, <<8, 8, 8>>)}

SelfIP == "172.18.0.2"

FlowChoices ==
    {Flow(TRUE, SelfIP, String(ip), TRUE, 1) : ip \in KnownIPs}
    \cup {Flow(TRUE, SelfIP, "172.18.0.3", TRUE, 2),
          Flow(FALSE, SelfIP, "8.8.8.8", TRUE, 1),
          Flow(TRUE, "172.18.0.3", SelfIP, TRUE, 1),
          Flow(TRUE, "", "8.8.8.8", TRUE, 1),
          Flow(TRUE, SelfIP, "", TRUE, 1),
          Flow(TRUE, SelfIP, "8.8.8.8", FALSE, 0),
          Flow(TRUE, SelfIP, "db", TRUE, 1)}

\* the address sets getContainerIPs can hand to the classification
PeerSets ==
    {[containerIPs |-> c, proxyIPs |-> p] :
        c \in {{}, {"172.18.0.3"}, {"172.18.0.3", "172.18.0.4", "fd00::3"}},
        p \in {{}, {"172.18.0.3"}, {"172.18.0.4", "10.0.0.5"}}}

InitClassify ==
    /\ \E peers \in PeerSets, n \in 0..MaxConns :
        \/ \E body \in [1..n -> LineChoices] :
              args = [fn |-> "readProcNetFile", peers |-> peers,
                      file |-> [err |-> FALSE, lines |-> <<HeaderLine>> \o body]]
        \/ \E flows \in [1..n -> FlowChoices] :
              args = [fn |-> "readConntrackBytes", peers |-> peers,
                      table |-> [err |-> FALSE, flows |-> flows]]
    /\ result = NoResult

ReadProcNetFile ==
    /\ args.fn = "readProcNetFile"
    /\ result' = [present |-> TRUE,
                  r |-> readProcNetFile(args.file, args.peers.containerIPs,
                                        args.peers.proxyIPs)]
    /\ UNCHANGED args

ReadConntrackBytes ==
    /\ args.fn = "readConntrackBytes"
    /\ result' = [present |-> TRUE,
                  r |-> readConntrackBytes(args.table, args.peers.containerIPs,
                                           args.peers.proxyIPs, {SelfIP})]
    /\ UNCHANGED args

InitK == idleSession /\ idleSummary /\ InitMonitor /\ idleLoop /\ idleUI
         /\ InitClassify
NextK ==
    \/ ReadProcNetFile /\ UNCHANGED <<sessionVars, summaryVars, monitorVars, loopVars, uiVars>>
    \/ ReadConntrackBytes /\ UNCHANGED <<sessionVars, summaryVars, monitorVars, loopVars, uiVars>>
SpecClassify == InitK /\ [][NextK]_vars

----------------------------------------------------------------------------
(* docker.go: the addresses of the other containers *)

\* an entry of NetworkSettings.Networks
Endpoint(netName, ip4, ip6) ==
    [netName |-> netName, IPAddress |-> ip4, GlobalIPv6Address |-> ip6]

\* the non-empty addresses of the networks of a container
endpointIPs(networks) ==
    ({networks[i].IPAddress : i \in 1..Len(networks)}
        \cup {networks[i].GlobalIPv6Address : i \in 1..Len(networks)}) \ {""}

\* the second pass of getContainerIPs never leaving a proxy out
skipsNothing(c) == FALSE

\* the second pass of getContainerIPs leaves the proxies out
skipsProxy(c) == isProxyContainer(c)

sharesNetwork(c, targetNetworks) ==
    \E i \in 1..Len(c.Networks) : c.Networks[i].netName \in targetNetworks

\* docker.inspect is the answer of ContainerInspect for the target,
\* docker.list the answer of ContainerList
getContainerIPs(docker, targetContainerID) ==
    IF docker.inspect.err \/ docker.list.err
    THEN [containerIPs |-> {}, proxyIPs |-> {}, err |-> TRUE]
    ELSE LET targetNetworks == docker.inspect.networks
             containers == docker.list.containers
             others == {i \in 1..Len(containers) : containers[i].ID # targetContainerID}
         IN [containerIPs |->
                UNION {endpointIPs(containers[i].Networks) :
                        i \in {j \in others :
                                /\ ~skipsProxy(containers[j])
                                /\ sharesNetwork(containers[j], targetNetworks)}},
             proxyIPs |->
                UNION {endpointIPs(containers[i].Networks) :
                        i \in {j \in others : isProxyContainer(containers[j])}},
             err |-> FALSE]

\* the containers of a host: what makes one a proxy or not, by label or image
PeerKinds ==
    {[hasLabel |-> FALSE, val |-> <<>>, image |-> <<"r", "e", "d", "i", "s">>],
     [hasLabel |-> FALSE, val |-> <<>>, image |-> <<"n", "g", "i", "n", "x">>],
     [hasLabel |-> TRUE, val |-> <<"t", "r", "u", "e">>,
      image |-> <<"r", "e", "d", "i", "s">>],
     [hasLabel |-> TRUE, val |-> <<"F", "a", "l", "s", "e">>,
      image |-> <<"n", "g", "i", "n", "x">>]}

NetworkSets == {{"front"}, {"back"}, {"front", "back"}}

\* container number i has address 172.18.0.(2+i) on the front network, with an
\* IPv6 address beside it, and 172.19.0.(2+i) on the back network
networksOf(i, nets) ==
    (IF "front" \in nets
     THEN <<Endpoint("front", "172.18.0." \o ToString(2 + i),
                     "fd00::" \o ToString(2 + i))>>
     ELSE <<>>)
    \o (IF "back" \in nets
        THEN <<Endpoint("back", "172.19.0." \o ToString(2 + i), "")>>
        ELSE <<>>)

containerOf(i, kind, nets) ==
    Summary(IF i = 0 THEN "target" ELSE ToString(i), kind.hasLabel, kind.val,
            kind.image, <<>>, networksOf(i, nets))

InitPeers ==
    /\ \E n \in 0..MaxPeers, targetKind \in PeerKinds, targetNets \in NetworkSets,
          targetFirst \in BOOLEAN, failure \in {"none", "inspect", "list"} :
        \E kinds \in [1..n -> PeerKinds], nets \in [1..n -> NetworkSets] :
            LET peers == [i \in 1..n |-> containerOf(i, kinds[i], nets[i])]
                target == containerOf(0, targetKind, targetNets)
            IN args = [fn |-> "getContainerIPs",
                       targetContainerID |-> "target",
                       docker |->
                          [inspect |-> [err |-> failure = "inspect",
                                        networks |-> targetNets],
                           list |-> [err |-> failure = "list",
                                     containers |->
                                        IF targetFirst THEN <<target>> \o peers
                                        ELSE peers \o <<target>>]]]
    /\ result = NoResult

GetContainerIPs ==
    /\ args.fn = "getContainerIPs"
    /\ result' = [present |-> TRUE,
                  r |-> getContainerIPs(args.docker, args.targetContainerID)]
    /\ UNCHANGED args

InitG == idleSession /\ idleSummary /\ InitMonitor /\ idleLoop /\ idleUI
         /\ InitPeers
NextG == GetContainerIPs /\ UNCHANGED <<sessionVars, summaryVars, monitorVars, loopVars, uiVars>>
SpecPeers == InitG /\ [][NextG]_vars

----------------------------------------------------------------------------
(* docker.go: getNetworkStats and the network fields of a Sample *)

NetworkStats(conn, bytes, source) ==
    [ConnInterContainer |-> conn[1], ConnInternal |-> conn[2], ConnInternet |-> conn[3],
     BytesInterContainer |-> bytes[1], BytesInternal |-> bytes[2],
     BytesInternet |-> bytes[3], BytesSource |-> source]

\* getContainerSelfIPs: docker.self is the answer of its ContainerInspect
getContainerSelfIPs(docker) ==
    IF docker.self.err THEN [selfIPs |-> {}, err |-> TRUE]
    ELSE [selfIPs |-> endpointIPs(docker.self.networks), err |-> FALSE]

\* classifyConnections: the counts of the files that could be read
classifyConnections(files, containerIPs, proxyIPs) ==
    LET tcp == readProcNetFile(files.tcp, containerIPs, proxyIPs)
        tcp6 == readProcNetFile(files.tcp6, containerIPs, proxyIPs)
        c4 == IF tcp.err THEN <<0, 0, 0>> ELSE tcp.counts
        c6 == IF tcp6.err THEN <<0, 0, 0>> ELSE tcp6.counts
    IN [k \in 1..3 |-> c4[k] + c6[k]]

\* getNetworkStats going on without the addresses of the other containers
peersFailedIgnored(peers) == FALSE

\* err != nil after getContainerIPs
peersFailed(peers) == peers.err

\* the result of getNetworkStats from the conntrack bytes ct and the
\* connection counts conn
statsFrom(ct, conn) ==
    IF ~ct.err /\ (ct.bytes[1] + ct.bytes[2] + ct.bytes[3]) % UintMod > 0
    THEN NetworkStats(conn, ct.bytes, "conntrack")
    ELSE NetworkStats(conn, <<0, 0, 0>>,
                      IF conn[1] + conn[2] + conn[3] > 0 THEN "estimated" ELSE "")

\* getNetworkStats once getContainerIPs has answered
statsWithPeers(env, peers, self) ==
    IF peersFailed(peers) THEN NetworkStats(<<0, 0, 0>>, <<0, 0, 0>>, "")
    ELSE statsFrom(readConntrackBytes(env.conntrack, peers.containerIPs, peers.proxyIPs,
                                      IF self.err THEN {} ELSE self.selfIPs),
                   classifyConnections(env.files, peers.containerIPs, peers.proxyIPs))

getNetworkStats(env, containerID) ==
    statsWithPeers(env, getContainerIPs(env.docker, containerID),
                   getContainerSelfIPs(env.docker))

\* the network fields of the Sample
sampleOfStats(netStats) ==
    [NetConnInterContainer |-> netStats.ConnInterContainer,
     NetConnInternal |-> netStats.ConnInternal,
     NetConnInternet |-> netStats.ConnInternet,
     NetBytesInterContainer |-> netStats.BytesInterContainer,
     NetBytesInternal |-> netStats.BytesInternal,
     NetBytesInternet |-> netStats.BytesInternet,
     NetBytesSource |-> netStats.BytesSource]

\* the end of CollectStats: the network breakdown is copied into the Sample
\* and the result is returned with a nil error
collectNetworkBreakdown(env, containerID) ==
    [err |-> FALSE, Sample |-> sampleOfStats(getNetworkStats(env, containerID))]

\* a host with the target, a plain container and a proxy on one network
HostContainers ==
    <<containerOf(0, [hasLabel |-> FALSE, val |-> <<>>, image |-> <<"a", "p", "p">>],
                  {"front"}),
      containerOf(1, [hasLabel |-> FALSE, val |-> <<>>,
                      image |-> <<"r", "e", "d", "i", "s">>], {"front"}),
      containerOf(2, [hasLabel |-> FALSE, val |-> <<>>,
                      image |-> <<"n", "g", "i", "n", "x">>], {"front"})>>

\* the steps of the introspection that can fail
Steps == {"inspect", "list", "self", "conntrack", "tcp", "tcp6"}

HostLines ==
    {ProcLine(17, 2, hexOf(ip)) :
        ip \in {<<172, 18, 0, 3>>, <<172, 18, 0, 4>>, <<10, 0, 0, 5>>, <<8, 8, 8, 8>>}}
HostLines6 ==
    {ProcLine(17, 2, hexOf(V4Mapped(<<172, 18, 0, 3>>))),
     ProcLine(17, 2, hexOf(V6Texts[5].ip))}
HostFlows ==
    {Flow(TRUE, SelfIP, "172.18.0.3", TRUE, 2),
     Flow(TRUE, SelfIP, "8.8.8.8", TRUE, 1),
     Flow(TRUE, "172.18.0.3", SelfIP, TRUE, 1)}

InitNetwork ==
    /\ \E failed \in {F \in SUBSET Steps : Cardinality(F) <= 2}, n \in 0..MaxConns,
          m \in 0..MaxConns, k \in 0..1 :
        \E body \in [1..n -> HostLines], body6 \in [1..k -> HostLines6],
           flows \in [1..m -> HostFlows] :
            args = [fn |-> "getNetworkStats",
                    containerID |-> "target",
                    failed |-> failed,
                    env |->
                       [docker |->
                           [inspect |-> [err |-> "inspect" \in failed,
                                         networks |-> {"front"}],
                            list |-> [err |-> "list" \in failed,
                                      containers |-> HostContainers],
                            self |-> [err |-> "self" \in failed,
                                      networks |-> HostContainers[1].Networks]],
                        conntrack |-> [err |-> "conntrack" \in failed, flows |-> flows],
                        files |->
                           [tcp |-> [err |-> "tcp" \in failed,
                                     lines |-> <<HeaderLine>> \o body],
                            tcp6 |-> [err |-> "tcp6" \in failed,
                                      lines |-> <<HeaderLine>> \o body6]]]]
    /\ result = NoResult

CollectNetworkBreakdown ==
    /\ args.fn = "getNetworkStats"
    /\ result' = [present |-> TRUE,
                  r |-> collectNetworkBreakdown(args.env, args.containerID)]
    /\ UNCHANGED args

InitN == idleSession /\ idleSummary /\ InitMonitor /\ idleLoop /\ idleUI
         /\ InitNetwork
NextN == CollectNetworkBreakdown
         /\ UNCHANGED <<sessionVars, summaryVars, monitorVars, loopVars, uiVars>>
SpecNetwork == InitN /\ [][NextN]_vars

----------------------------------------------------------------------------
(* stats.go: the network breakdown of CalculateSummary *)

NoBreakdown == [present |-> FALSE]

\* the sum of field f over the samples accepted by keep, as the loop of
\* CalculateSummary accumulates it
RECURSIVE sumOver(_, _, _)
sumOver(samples, f, keep) ==
    IF Len(samples) = 0 THEN 0
    ELSE (IF keep[1] THEN Head(samples)[f] ELSE 0)
            + sumOver(Tail(samples), f, Tail(keep))

\* the byte-based branch never taken
bytesNeverPreferred(samplesWithBytes, totalBytes) == FALSE

\* samplesWithBytes > 0 && total bytes > 0
bytesPreferred(samplesWithBytes, totalBytes) == samplesWithBytes > 0 /\ totalBytes > 0

Percentages(a, b, c, total) ==
    [present |-> TRUE,
     InterContainerPct |-> Rat(a * 100, total),
     InternalPct |-> Rat(b * 100, total),
     InternetPct |-> Rat(c * 100, total)]

networkBreakdown(samples) ==
    LET hasBytes == [i \in 1..Len(samples) |->
                        (samples[i].NetBytesInterContainer + samples[i].NetBytesInternal
                            + samples[i].NetBytesInternet) % UintMod > 0]
        hasConns == [i \in 1..Len(samples) |->
                        samples[i].NetConnInterContainer + samples[i].NetConnInternal
                            + samples[i].NetConnInternet > 0]
        bI == sumOver(samples, "NetBytesInterContainer", hasBytes) % UintMod
        bP == sumOver(samples, "NetBytesInternal", hasBytes) % UintMod
        bE == sumOver(samples, "NetBytesInternet", hasBytes) % UintMod
        cI == sumOver(samples, "NetConnInterContainer", hasConns)
        cP == sumOver(samples, "NetConnInternal", hasConns)
        cE == sumOver(samples, "NetConnInternet", hasConns)
        samplesWithBytes == Cardinality({i \in 1..Len(samples) : hasBytes[i]})
        samplesWithConnections == Cardinality({i \in 1..Len(samples) : hasConns[i]})
    IN IF bytesPreferred(samplesWithBytes, (bI + bP + bE) % UintMod)
       THEN Percentages(bI, bP, bE, (bI + bP + bE) % UintMod)
       ELSE IF samplesWithConnections > 0 /\ cI + cP + cE > 0
       THEN Percentages(cI, cP, cE, cI + cP + cE)
       ELSE NoBreakdown

\* the network fields of a Sample, as CollectStats fills them
NetSample(bytes, conn) ==
    [NetBytesInterContainer |-> bytes[1], NetBytesInternal |-> bytes[2],
     NetBytesInternet |-> bytes[3],
     NetConnInterContainer |-> conn[1], NetConnInternal |-> conn[2],
     NetConnInternet |-> conn[3]]

\* samples without network data, with connection counts only, with conntrack
\* bytes only, and with both
NetSamples ==
    {NetSample(b, c) :
        b \in {<<0, 0, 0>>, <<3, 0, 1>>, <<0, 2, 2>>},
        c \in {<<0, 0, 0>>, <<1, 1, 0>>, <<0, 0, 5>>}}

InitBreakdown ==
    /\ \E n \in 1..MaxSamples : \E samples \in [1..n -> NetSamples] :
          args = [fn |-> "CalculateSummary", samples |-> samples]
    /\ result = NoResult

SummarizeNetwork ==
    /\ args.fn = "CalculateSummary"
    /\ result' = [present |-> TRUE, NetworkBreakdown |-> networkBreakdown(args.samples)]
    /\ UNCHANGED args

InitB == idleSession /\ idleSummary /\ InitMonitor /\ idleLoop /\ idleUI
         /\ InitBreakdown
NextB == SummarizeNetwork /\ UNCHANGED <<sessionVars, summaryVars, monitorVars, loopVars, uiVars>>
SpecBreakdown == InitB /\ [][NextB]_vars

----------------------------------------------------------------------------
(* stats.go: calculateStats and percentile.  A float64 value is an integer  *)
(* here, a result the quotient of two integers; p is given in hundredths.   *)

\* sort.Float64s, on a copy
RECURSIVE insertAsc(_, _)
insertAsc(sorted, v) ==
    IF Len(sorted) = 0 THEN <<v>>
    ELSE IF v <= Head(sorted) THEN <<v>> \o sorted
    ELSE <<Head(sorted)>> \o insertAsc(Tail(sorted), v)

RECURSIVE sortFloat64s(_)
sortFloat64s(values) ==
    IF Len(values) = 0 THEN <<>>
    ELSE insertAsc(sortFloat64s(Tail(values)), Head(values))

RECURSIVE sumOf(_)
sumOf(values) == IF Len(values) = 0 THEN 0 ELSE Head(values) + sumOf(Tail(values))

\* interpolate taking the lower of the two bracketing values
interpolateLower(lowerValue, upperValue, weightHundredths) == Rat(lowerValue, 1)

\* sorted[lower]*(1-weight) + sorted[upper]*weight
interpolate(lowerValue, upperValue, weightHundredths) ==
    Rat(lowerValue * (100 - weightHundredths) + upperValue * weightHundredths, 100)

\* percentile(sorted, p) with p = pHundredths / 100; indices count from 0 in
\* the code and from 1 here
percentile(sorted, pHundredths) ==
    IF Len(sorted) = 0 THEN ZeroRate
    ELSE IF Len(sorted) = 1 THEN Rat(sorted[1], 1)
    ELSE LET rankHundredths == pHundredths * (Len(sorted) - 1)
             lower == rankHundredths \div 100
             upper == (rankHundredths + 99) \div 100
         IN IF lower = upper THEN Rat(sorted[lower + 1], 1)
            ELSE interpolate(sorted[lower + 1], sorted[upper + 1],
                             rankHundredths - 100 * lower)

NoStatsSummary == [Min |-> 0, Max |-> 0, Avg |-> ZeroRate, P95 |-> ZeroRate, P99 |-> ZeroRate]

calculateStats(values) ==
    IF Len(values) = 0 THEN NoStatsSummary
    ELSE LET sorted == sortFloat64s(values)
         IN [Min |-> sorted[1],
             Max |-> Last(sorted),
             Avg |-> Rat(sumOf(values), Len(values)),
             P95 |-> percentile(sorted, 95),
             P99 |-> percentile(sorted, 99)]

\* the caller's slice after calculateStats: the copy was sorted, not the slice
valuesAfter(values) == values

Values == (0 - 1)..ValueMax

\* 21 values in descending order: the rank of p95 is the integer 19
ExampleValues == [i \in 1..21 |-> 22 - i]

InitStats ==
    /\ \/ \E n \in 1..MaxValues : \E values \in [1..n -> Values] :
            args = [fn |-> "calculateStats", values |-> values, given |-> values]
       \/ args = [fn |-> "calculateStats", values |-> ExampleValues,
                  given |-> ExampleValues]
    /\ result = NoResult

CalculateStats ==
    /\ args.fn = "calculateStats"
    /\ result' = [present |-> TRUE, stats |-> calculateStats(args.values)]
    /\ args' = [args EXCEPT !.values = valuesAfter(args.values)]

InitV == idleSession /\ idleSummary /\ InitMonitor /\ idleLoop /\ idleUI
         /\ InitStats
NextV == CalculateStats /\ UNCHANGED <<sessionVars, summaryVars, monitorVars, loopVars, uiVars>>
SpecStats == InitV /\ [][NextV]_vars

----------------------------------------------------------------------------
(* stats.go: DetectWarnings.  Memory is counted in MiB, and NetTxTotal is   *)
(* kept as whole MiB and remaining bytes, a number of bytes above 2^31 not  *)
(* being an integer TLC can hold.                                           *)

\* a warning: its text, and the number formatted into it, if any
Warning(text) == [text |-> text, value |-> ZeroRate]
WarningWith(text, value) == [text |-> text, value |-> value]

\* the P95 rule tested whether or not the OOM rule fired
approachingLimitAlways(oomRisk, p95, memLimit) == p95 * 100 >= memLimit * 80

\* else if data.Summary.MemoryUsage.P95 >= memLimitBytes*0.80: the else of the
\* OOM test, then the test of the P95
approachingLimit(oomRisk, p95, memLimit) == ~oomRisk /\ p95 * 100 >= memLimit * 80

\* the throttling rule firing only above 100
cpuMaxAbove100(max) == max > 100

\* data.Summary.CPUPercent.Max >= 100
cpuMaxReached100(max) == max >= 100

\* data.Summary.NetTxTotal > 10*1024*1024*1024
highEgress(netTxTotal) ==
    netTxTotal.mib > 10 * 1024 \/ (netTxTotal.mib = 10 * 1024 /\ netTxTotal.bytes > 0)

DetectWarnings(d) ==
    IF ~d.Summary.present THEN <<>>
    ELSE LET s == d.Summary
             l == d.Limits
             oomRisk == s.MemoryUsage.Max * 100 >= l.MemLimit * 95
         IN (IF l.MemLimit > 0 /\ oomRisk
             THEN <<Warning("Memory usage reached 95%+ of limit - OOM risk")>>
             ELSE <<>>)
            \o (IF l.MemLimit > 0 /\ approachingLimit(oomRisk, s.MemoryUsage.P95, l.MemLimit)
                THEN <<Warning("Memory usage P95 above 80% of limit")>>
                ELSE <<>>)
            \o (IF l.MemLimit = 0 /\ s.MemoryPercent.P95 > 80
                THEN <<Warning("High memory usage with no memory limit set")>>
                ELSE <<>>)
            \o (IF s.CPUPercent.P95 > 90
                THEN <<Warning("CPU usage P95 above 90%")>>
                ELSE <<>>)
            \o (IF cpuMaxReached100(s.CPUPercent.Max)
                THEN <<Warning("CPU usage reached 100% - possible throttling")>>
                ELSE <<>>)
            \o (IF /\ l.CPUQuota > 0 /\ l.CPUPeriod > 0
                   /\ s.CPUPercent.P95 * l.CPUPeriod * 10 >= l.CPUQuota * 100 * 9
                THEN <<WarningWith("CPU usage near quota limit (%.1f%%)",
                                   Rat(l.CPUQuota * 100, l.CPUPeriod))>>
                ELSE <<>>)
            \o (IF highEgress(s.NetTxTotal)
                THEN <<WarningWith("High egress traffic: %.2f GB",
                                   Rat(s.NetTxTotal.mib, 1024))>>
                ELSE <<>>)
            \o (IF l.PidsLimit > 0 /\ s.PidsCount.Max * 10 >= l.PidsLimit * 9
                THEN <<Warning("PID count near limit")>>
                ELSE <<>>)

\* max and p95 of a metric, the p95 never above the max
MaxP95(maxs, p95s) ==
    {r \in [Max : maxs, P95 : p95s] : r.P95 <= r.Max}

\* the limits of a container: a memory limit of 20 MiB or none, half a CPU,
\* no quota or a quota of -1, a PID limit of 10 or none
LimitChoices ==
    {[MemLimit |-> m, CPUQuota |-> q, CPUPeriod |-> 2, PidsLimit |-> p] :
        m \in {0, 20}, q \in {0 - 1, 0, 1}, p \in {0, 10}}

\* summaries at and on either side of the thresholds of the rules
SummaryChoices ==
    {[present |-> TRUE, MemoryUsage |-> mem, MemoryPercent |-> [P95 |-> mp],
      CPUPercent |-> cpu, NetTxTotal |-> [mib |-> 10 * 1024, bytes |-> tx],
      PidsCount |-> [Max |-> pids]] :
        mem \in MaxP95({15, 16, 18, 19}, {15, 16, 19}), mp \in {80, 81},
        cpu \in MaxP95({99, 100}, {44, 45, 90, 91}), tx \in {0, 1}, pids \in {8, 9}}

\* memory limit 512 MiB, max usage 500 MiB
ExampleOOM ==
    [Summary |-> [present |-> TRUE, MemoryUsage |-> [Max |-> 500, P95 |-> 480],
                  MemoryPercent |-> [P95 |-> 94], CPUPercent |-> [Max |-> 30, P95 |-> 20],
                  NetTxTotal |-> [mib |-> 100, bytes |-> 0], PidsCount |-> [Max |-> 12]],
     Limits |-> [MemLimit |-> 512, CPUQuota |-> 0, CPUPeriod |-> 0, PidsLimit |-> 0]]

InitWarnings ==
    /\ \/ \E s \in SummaryChoices, l \in LimitChoices :
            args = [fn |-> "DetectWarnings", data |-> [Summary |-> s, Limits |-> l]]
       \/ \E l \in LimitChoices :
            args = [fn |-> "DetectWarnings", data |-> [Summary |-> NoSummary, Limits |-> l]]
       \/ args = [fn |-> "DetectWarnings", data |-> ExampleOOM]
    /\ result = NoResult

\* a call of DetectWarnings; result.calls counts the calls made, and
\* result.first keeps what the first call returned
DetectWarningsCall ==
    /\ args.fn = "DetectWarnings"
    /\ (result.present => result.calls < 2)
    /\ LET w == DetectWarnings(args.data)
       IN result' = [present |-> TRUE,
                     warnings |-> w,
                     calls |-> IF result.present THEN result.calls + 1 ELSE 1,
                     first |-> IF result.present THEN result.first ELSE w]
    /\ UNCHANGED args

InitW == idleSession /\ idleSummary /\ InitMonitor /\ idleLoop /\ idleUI
         /\ InitWarnings
NextW == DetectWarningsCall /\ UNCHANGED <<sessionVars, summaryVars, monitorVars, loopVars, uiVars>>
SpecWarnings == InitW /\ [][NextW]_vars

----------------------------------------------------------------------------
(* stats.go: the instance catalog and RecommendInstance.  The summary's    *)
(* float64 values are exact quotients; memory is counted in MiB, so that   *)
(* 1024 * 1024 * 1024 bytes are 1024 MiB; an hourly price is a quotient of *)
(* ten-thousandths of a dollar.                                            *)

InstanceType(type, vcpu, memoryGB, hourly, arch) ==
    [Type |-> type, VCPU |-> vcpu, MemoryGB |-> memoryGB,
     Hourly |-> Rat(hourly, 10000), Arch |-> arch]

awsInstanceTypes ==
    << InstanceType("t3.micro", 2, 1, 104, "x86"),
       InstanceType("t3.small", 2, 2, 208, "x86"),
       InstanceType("t3.medium", 2, 4, 416, "x86"),
       InstanceType("t3.large", 2, 8, 832, "x86"),
       InstanceType("t3.xlarge", 4, 16, 1664, "x86"),
       InstanceType("m5.large", 2, 8, 960, "x86"),
       InstanceType("m5.xlarge", 4, 16, 1920, "x86"),
       InstanceType("m5.2xlarge", 8, 32, 3840, "x86"),
       InstanceType("c5.large", 2, 4, 850, "x86"),
       InstanceType("c5.xlarge", 4, 8, 1700, "x86"),
       InstanceType("c5.2xlarge", 8, 16, 3400, "x86"),
       InstanceType("r5.large", 2, 16, 1260, "x86"),
       InstanceType("r5.xlarge", 4, 32, 2520, "x86"),
       InstanceType("t4g.micro", 2, 1, 84, "arm"),
       InstanceType("t4g.small", 2, 2, 168, "arm"),
       InstanceType("t4g.medium", 2, 4, 336, "arm"),
       InstanceType("t4g.large", 2, 8, 672, "arm"),
       InstanceType("t4g.xlarge", 4, 16, 1344, "arm"),
       InstanceType("m7g.large", 2, 8, 816, "arm"),
       InstanceType("m7g.xlarge", 4, 16, 1632, "arm"),
       InstanceType("m7g.2xlarge", 8, 32, 3264, "arm"),
       InstanceType("c7g.large", 2, 4, 725, "arm"),
       InstanceType("c7g.xlarge", 4, 8, 1450, "arm"),
       InstanceType("c7g.2xlarge", 8, 16, 2900, "arm"),
       InstanceType("r7g.large", 2, 16, 1008, "arm"),
       InstanceType("r7g.xlarge", 4, 32, 2016, "arm") >>

NoRecommendation == [present |-> FALSE]

\* the memory of the instance left out of the test
hasEnoughCPU(inst, s) ==
    inst.VCPU * s.CPUPercent.P95.den * 1000 >= s.CPUPercent.P95.num * 12

\* float64(inst.VCPU) >= requiredCPU && inst.MemoryGB >= requiredMemGB, with
\* requiredCPU = CPUPercent.P95 / 100 * 1.2 and
\* requiredMemGB = MemoryUsage.P95 / (1024 * 1024 * 1024) * 1.2
hasEnoughResources(inst, s) ==
    /\ inst.VCPU * s.CPUPercent.P95.den * 1000 >= s.CPUPercent.P95.num * 12
    /\ inst.MemoryGB * s.MemoryUsage.P95.den * 1024 * 10
           >= s.MemoryUsage.P95.num * 12

\* cpuBound := summary.CPUPercent.P95 > summary.MemoryPercent.P95
cpuBound(s) ==
    s.CPUPercent.P95.num * s.MemoryPercent.P95.den
        > s.MemoryPercent.P95.num * s.CPUPercent.P95.den

\* the loop over the catalog from entry i on: the index of the entry it
\* breaks at (0 when it runs to the end), the last index of the architecture
\* it has seen (0 for none), and the index of the entry the loop variable
\* holds when the loop is left
RECURSIVE instanceLoop(_, _, _, _)
instanceLoop(i, s, arch, lastOfArch) ==
    IF i > Len(awsInstanceTypes)
    THEN [found |-> 0, lastOfArch |-> lastOfArch, inst |-> Len(awsInstanceTypes)]
    ELSE IF awsInstanceTypes[i].Arch # arch
    THEN instanceLoop(i + 1, s, arch, lastOfArch)
    ELSE IF hasEnoughResources(awsInstanceTypes[i], s)
    THEN [found |-> i, lastOfArch |-> i, inst |-> i]
    ELSE instanceLoop(i + 1, s, arch, i)

\* lastOfArch = &inst is the address of the loop variable: with one variable
\* per iteration (Go 1.22 on) it stays the last entry of the architecture,
\* with one variable for the whole loop it is the entry the loop ended on
RecommendInstance(s, arch, perIteration) ==
    IF ~s.present THEN NoRecommendation
    ELSE LET loop == instanceLoop(1, s, arch, 0)
         IN IF loop.found # 0
            THEN LET inst == awsInstanceTypes[loop.found]
                 IN [present |-> TRUE,
                     InstanceType |-> inst.Type,
                     VCPU |-> inst.VCPU,
                     MemoryGB |-> inst.MemoryGB,
                     Reason |-> IF cpuBound(s)
                                THEN "CPU-bound workload (P95: %.1f%%)"
                                ELSE "Memory-bound workload (P95: %.1f%%, %.2f GB)",
                     HourlyPrice |-> inst.Hourly,
                     Architecture |-> arch]
            ELSE IF loop.lastOfArch # 0
            THEN LET inst == awsInstanceTypes[IF perIteration THEN loop.lastOfArch
                                              ELSE loop.inst]
                 IN [present |-> TRUE,
                     InstanceType |-> inst.Type,
                     VCPU |-> inst.VCPU,
                     MemoryGB |-> inst.MemoryGB,
                     Reason |-> "Resource requirements exceed common instance sizes",
                     HourlyPrice |-> inst.Hourly,
                     Architecture |-> arch]
            ELSE NoRecommendation

\* P95 of the CPU percentage: on either side of 2, 4 and 8 cores after the
\* 20% headroom, and 275/3 %, which asks for 1.1 cores
CpuP95Choices ==
    {Rat(n, 1) : n \in {0, 100, 166, 167, 333, 334, 666, 667}} \cup {Rat(275, 3)}

\* P95 of the memory in MiB: on either side of 1, 2, 4, 8, 16 and 32 GB after
\* the headroom, and 2816/3 MiB, which asks for 1.1 GiB
MemP95Choices ==
    {Rat(n, 1) : n \in {0, 853, 854, 1706, 1707, 3413, 3414, 6826, 6827,
                        13653, 13654, 27306, 27307}} \cup {Rat(2816, 3)}

SizingSummaries ==
    {[present |-> TRUE, CPUPercent |-> [P95 |-> c], MemoryUsage |-> [P95 |-> m],
      MemoryPercent |-> [P95 |-> Rat(p, 1)]] :
        c \in CpuP95Choices, m \in MemP95Choices, p \in {10, 95}}

InitRecommend ==
    /\ \E arch \in {"x86", "arm"}, perIteration \in BOOLEAN :
         \/ \E s \in SizingSummaries :
              args = [fn |-> "RecommendInstance", summary |-> s, arch |-> arch,
                      perIteration |-> perIteration]
         \/ args = [fn |-> "RecommendInstance", summary |-> NoSummary, arch |-> arch,
                    perIteration |-> perIteration]
    /\ result = NoResult

RecommendInstanceCall ==
    /\ args.fn = "RecommendInstance"
    /\ ~result.present
    /\ result' = [present |-> TRUE,
                  recommendation |->
                      RecommendInstance(args.summary, args.arch, args.perIteration)]
    /\ UNCHANGED args

InitR == idleSession /\ idleSummary /\ InitMonitor /\ idleLoop /\ idleUI
         /\ InitRecommend
NextR == RecommendInstanceCall
         /\ UNCHANGED <<sessionVars, summaryVars, monitorVars, loopVars, uiVars>>
SpecRecommend == InitR /\ [][NextR]_vars

----------------------------------------------------------------------------
(* types.go: Monitor.Run step by step, with the goroutines of a collection, *)
(* the mutex and a caller of GetContainerData.  containerData, prevStats    *)
(* and disk are here the maps of the Monitor, one entry per container.      *)

\* config.Containers
Containers == <<"web", "db">>
Names == {Containers[i] : i \in 1..Len(Containers)}

\* what the runtime answers to the fetch of a container
Causes == {"ok", "not running", "inspect error", "stats error"}

\* the counters of a successful fetch
RuntimeStats == [ok |-> TRUE, rx |-> 1, tx |-> 1, rd |-> 1, wr |-> 1]
FailedStats == [ok |-> FALSE, rx |-> 0, tx |-> 0, rd |-> 0, wr |-> 0]

NoFetch == [pc |-> "none", cause |-> "none", prev |-> NoStats, stats |-> NoStats]

\* the series and the baselines when a collection starts
snapshot(cd, prev) ==
    [c \in Names |-> [Samples |-> IF cd[c].present THEN cd[c].d.Samples ELSE <<>>,
                      prev |-> prev[c]]]

\* RunMonitor: the process has made no Monitor yet
InitLoop ==
    /\ clock = 0
    /\ run = [alive |-> FALSE, n |-> 0, ticks |-> 0]
    /\ lastCall = NoCollect
    /\ containerData = [c \in Names |-> NoData]
    /\ prevStats = [c \in Names |-> NoStats]
    /\ disk = [c \in Names |-> NoData]
    /\ mainLoop = [pc |-> "RunMonitor", i |-> 0, ticks |-> 0, ticker |-> "none",
                   docker |-> "none", err |-> "none", cause |-> "none",
                   collections |-> 0, saves |-> 0, shutdowns |-> 0,
                   base |-> snapshot([c \in Names |-> NoData],
                                     [c \in Names |-> NoStats])]
    /\ fetch = [c \in Names |-> NoFetch]
    /\ mu = NoHolder
    /\ reader = [pc |-> "idle", held |-> {}, name |-> ""]

\* NewMonitor: the client is made, or RunMonitor returns the error
NewMonitor ==
    /\ mainLoop.pc = "RunMonitor"
    /\ \E ok \in BOOLEAN :
        mainLoop' = IF ok THEN [mainLoop EXCEPT !.pc = "Run", !.docker = "open"]
                    ELSE [mainLoop EXCEPT !.pc = "done", !.err = "error"]
    /\ UNCHANGED <<clock, run, lastCall, containerData, prevStats, disk, fetch, mu,
                   reader>>

\* collectAllStats is entered: no goroutine yet
enterCollect(ml, cd, prev) ==
    [ml EXCEPT !.pc = "collectAllStats", !.i = 1, !.collections = @ + 1,
               !.base = snapshot(cd, prev)]

\* Run up to the initial collection: initializeContainers makes a series for
\* every container the runtime resolves and returns nil, the ticker starts
RunInit ==
    /\ mainLoop.pc = "Run"
    /\ \E found \in SUBSET Names :
        LET cd == [c \in Names |->
                     IF c \in found
                     THEN Some([initializeContainers(TRUE, clock).d
                                   EXCEPT !.ContainerName = c])
                     ELSE initializeContainers(FALSE, clock)]
        IN /\ containerData' = cd
           /\ mainLoop' = enterCollect([mainLoop EXCEPT !.ticker = "running"], cd,
                                       prevStats)
    /\ fetch' = [c \in Names |-> NoFetch]
    /\ UNCHANGED <<clock, run, lastCall, prevStats, disk, mu, reader>>

\* collectAllStats, one turn of its loop: a goroutine for the container when
\* m.containerData[containerName] is not nil
Spawn ==
    /\ mainLoop.pc = "collectAllStats"
    /\ LET c == Containers[mainLoop.i]
       IN fetch' = IF containerData[c].present
                   THEN [fetch EXCEPT ![c] = [NoFetch EXCEPT !.pc = "start"]]
                   ELSE fetch
    /\ mainLoop' = [mainLoop EXCEPT
                      !.i = @ + 1,
                      !.pc = IF mainLoop.i = Len(Containers) THEN "Wait" ELSE @]
    /\ UNCHANGED <<clock, run, lastCall, containerData, prevStats, disk, mu, reader>>

\* wg.Wait returning although goroutines are still at work
allDoneOrNot(f) == TRUE

\* wg.Wait returns when every goroutine started has called wg.Done
allDone(f) == \A c \in Names : f[c].pc \in {"none", "done"}

Wait ==
    /\ mainLoop.pc = "Wait"
    /\ allDone(fetch)
    /\ mainLoop' = [mainLoop EXCEPT !.pc = "saveData"]
    /\ UNCHANGED <<clock, run, lastCall, containerData, prevStats, disk, fetch, mu,
                   reader>>

\* saveData: m.mu.Lock()
SaveLock ==
    /\ mainLoop.pc = "saveData"
    /\ mu = NoHolder
    /\ mu' = "main"
    /\ mainLoop' = [mainLoop EXCEPT !.pc = "saving"]
    /\ UNCHANGED <<clock, run, lastCall, containerData, prevStats, disk, fetch, reader>>

\* saveData: every series with samples is stamped and written, then the
\* deferred Unlock
SaveWrite ==
    /\ mainLoop.pc = "saving"
    /\ containerData' = [c \in Names |-> saveData(containerData[c], disk[c], clock).cd]
    /\ disk' = [c \in Names |-> saveData(containerData[c], disk[c], clock).disk]
    /\ mu' = NoHolder
    /\ mainLoop' = [mainLoop EXCEPT !.pc = "select", !.saves = @ + 1]
    /\ UNCHANGED <<clock, run, lastCall, prevStats, fetch, reader>>

\* case <-ticker.C
CaseTicker ==
    /\ mainLoop.pc = "select"
    /\ mainLoop.ticker = "running"
    /\ mainLoop.ticks < MaxTicks
    /\ clock' = clock + MonitorInterval * TicksPerSec
    /\ mainLoop' = enterCollect([mainLoop EXCEPT !.ticks = @ + 1], containerData,
                                prevStats)
    /\ fetch' = [c \in Names |-> NoFetch]
    /\ UNCHANGED <<run, lastCall, containerData, prevStats, disk, mu, reader>>

\* case <-sigChan, case <-m.stopChan: a signal or a Stop that has come by now
CaseShutdown ==
    /\ mainLoop.pc = "select"
    /\ \E cause \in {"signal", "stop"} :
        mainLoop' = [mainLoop EXCEPT !.pc = "shutdown", !.cause = cause]
    /\ UNCHANGED <<clock, run, lastCall, containerData, prevStats, disk, fetch, mu,
                   reader>>

\* shutdown: m.mu.Lock()
ShutdownLock ==
    /\ mainLoop.pc = "shutdown"
    /\ mu = NoHolder
    /\ mu' = "main"
    /\ mainLoop' = [mainLoop EXCEPT !.pc = "summarizing", !.shutdowns = @ + 1]
    /\ UNCHANGED <<clock, run, lastCall, containerData, prevStats, disk, fetch, reader>>

\* shutdown: the final summary of every series with samples, written with the
\* series, then m.mu.Unlock()
ShutdownWrite ==
    /\ mainLoop.pc = "summarizing"
    /\ containerData' = [c \in Names |-> shutdown(containerData[c], disk[c], clock).cd]
    /\ disk' = [c \in Names |-> shutdown(containerData[c], disk[c], clock).disk]
    /\ mu' = NoHolder
    /\ mainLoop' = [mainLoop EXCEPT !.pc = "Close"]
    /\ UNCHANGED <<clock, run, lastCall, prevStats, fetch, reader>>

\* shutdown: m.docker.Close()
Close ==
    /\ mainLoop.pc = "Close"
    /\ mainLoop' = [mainLoop EXCEPT !.pc = "return", !.docker = "closed"]
    /\ UNCHANGED <<clock, run, lastCall, containerData, prevStats, disk, fetch, mu,
                   reader>>

\* return nil, and the deferred ticker.Stop()
Return ==
    /\ mainLoop.pc = "return"
    /\ mainLoop' = [mainLoop EXCEPT !.pc = "done", !.ticker = "stopped", !.err = "nil"]
    /\ UNCHANGED <<clock, run, lastCall, containerData, prevStats, disk, fetch, mu,
                   reader>>

\* collectContainerStats: data and prev are read under the mutex
FetchRead(c) ==
    /\ fetch[c].pc = "start"
    /\ mu = NoHolder
    /\ fetch' = [fetch EXCEPT ![c] =
                    IF containerData[c].present
                    THEN [@ EXCEPT !.pc = "fetching", !.prev = prevStats[c]]
                    ELSE [@ EXCEPT !.pc = "done"]]
    /\ UNCHANGED <<clock, run, lastCall, containerData, prevStats, disk, mainLoop, mu,
                   reader>>

\* the container taken for running whatever IsContainerRunning said
goneOnErrorOnly(err, running) == err

\* err != nil || !running
gone(err, running) == err \/ ~running

\* collectContainerStats: IsContainerRunning, then CollectStats; the goroutine
\* returns on a container that is gone and on an error of CollectStats
FetchStats(c) ==
    /\ fetch[c].pc = "fetching"
    /\ \E cause \in Causes :
        LET r == CollectStats(IF cause = "stats error" THEN FailedStats
                              ELSE RuntimeStats,
                              clock, fetch[c].prev)
        IN fetch' = [fetch EXCEPT ![c] =
                        IF gone(cause = "inspect error", cause # "not running") \/ r.err
                        THEN [@ EXCEPT !.pc = "done", !.cause = cause]
                        ELSE [@ EXCEPT !.pc = "lock", !.cause = cause,
                                       !.stats = r.result]]
    /\ UNCHANGED <<clock, run, lastCall, containerData, prevStats, disk, mainLoop, mu,
                   reader>>

\* collectContainerStats: the second m.mu.Lock()
FetchLock(c) ==
    /\ fetch[c].pc = "lock"
    /\ mu = NoHolder
    /\ mu' = c
    /\ fetch' = [fetch EXCEPT ![c].pc = "locked"]
    /\ UNCHANGED <<clock, run, lastCall, containerData, prevStats, disk, mainLoop,
                   reader>>

\* collectContainerStats: the baseline is replaced and the sample appended
FetchWrite(c) ==
    /\ fetch[c].pc = "locked"
    /\ prevStats' = [prevStats EXCEPT ![c] = fetch[c].stats]
    /\ containerData' =
          [containerData EXCEPT ![c] =
              Some([@.d EXCEPT !.Samples = Append(@, fetch[c].stats.Sample)])]
    /\ fetch' = [fetch EXCEPT ![c].pc = "written"]
    /\ UNCHANGED <<clock, run, lastCall, disk, mainLoop, mu, reader>>

\* collectContainerStats: m.mu.Unlock(), the log line and wg.Done
FetchUnlock(c) ==
    /\ fetch[c].pc = "written"
    /\ mu' = NoHolder
    /\ fetch' = [fetch EXCEPT ![c].pc = "done"]
    /\ UNCHANGED <<clock, run, lastCall, containerData, prevStats, disk, mainLoop,
                   reader>>

\* GetContainerData: under the mutex, a new map with the same pointers
GetContainerData ==
    /\ mainLoop.pc \notin {"RunMonitor", "done"}
    /\ reader.pc \in {"idle", "holds"}
    /\ mu = NoHolder
    /\ reader' = [pc |-> "holds", held |-> {c \in Names : containerData[c].present},
                  name |-> ""]
    /\ UNCHANGED <<clock, run, lastCall, containerData, prevStats, disk, mainLoop,
                   fetch, mu>>

\* the caller reads the samples of a series it was handed
ReadSamples ==
    /\ reader.pc = "holds"
    /\ \E c \in reader.held : reader' = [reader EXCEPT !.pc = "reading", !.name = c]
    /\ UNCHANGED <<clock, run, lastCall, containerData, prevStats, disk, mainLoop,
                   fetch, mu>>

ReadDone ==
    /\ reader.pc = "reading"
    /\ reader' = [reader EXCEPT !.pc = "holds", !.name = ""]
    /\ UNCHANGED <<clock, run, lastCall, containerData, prevStats, disk, mainLoop,
                   fetch, mu>>

InitL == idleSession /\ idleSummary /\ idleCall /\ idleUI /\ InitLoop
NextL ==
    \/ NewMonitor /\ UNCHANGED <<sessionVars, summaryVars, callVars, uiVars>>
    \/ RunInit /\ UNCHANGED <<sessionVars, summaryVars, callVars, uiVars>>
    \/ Spawn /\ UNCHANGED <<sessionVars, summaryVars, callVars, uiVars>>
    \/ Wait /\ UNCHANGED <<sessionVars, summaryVars, callVars, uiVars>>
    \/ SaveLock /\ UNCHANGED <<sessionVars, summaryVars, callVars, uiVars>>
    \/ SaveWrite /\ UNCHANGED <<sessionVars, summaryVars, callVars, uiVars>>
    \/ CaseTicker /\ UNCHANGED <<sessionVars, summaryVars, callVars, uiVars>>
    \/ CaseShutdown /\ UNCHANGED <<sessionVars, summaryVars, callVars, uiVars>>
    \/ ShutdownLock /\ UNCHANGED <<sessionVars, summaryVars, callVars, uiVars>>
    \/ ShutdownWrite /\ UNCHANGED <<sessionVars, summaryVars, callVars, uiVars>>
    \/ Close /\ UNCHANGED <<sessionVars, summaryVars, callVars, uiVars>>
    \/ Return /\ UNCHANGED <<sessionVars, summaryVars, callVars, uiVars>>
    \/ \E c \in Names :
        /\ \/ FetchRead(c)
           \/ FetchStats(c)
           \/ FetchLock(c)
           \/ FetchWrite(c)
           \/ FetchUnlock(c)
        /\ UNCHANGED <<sessionVars, summaryVars, callVars, uiVars>>
    \/ GetContainerData /\ UNCHANGED <<sessionVars, summaryVars, callVars, uiVars>>
    \/ ReadSamples /\ UNCHANGED <<sessionVars, summaryVars, callVars, uiVars>>
    \/ ReadDone /\ UNCHANGED <<sessionVars, summaryVars, callVars, uiVars>>
SpecLoop == InitL /\ [][NextL]_vars

----------------------------------------------------------------------------
(* export.go, main.go: the time filter of export.  A duration is a number  *)
(* of ticks; a flag is a string of characters.                              *)

Digits == <<"0", "1", "2", "3", "4", "5", "6", "7", "8", "9">>
isDigit(ch) == \E d \in 1..Len(Digits) : Digits[d] = ch
digitOf(ch) == (CHOOSE d \in 1..Len(Digits) : Digits[d] = ch) - 1

\* strconv.Atoi on a string of digits; anything else is an error
RECURSIVE atoiLoop(_, _)
atoiLoop(str, acc) ==
    IF Len(str) = 0 THEN acc
    ELSE atoiLoop(Tail(str), acc * 10 + digitOf(Head(str)))
Atoi(str) ==
    IF Len(str) = 0 \/ \E i \in 1..Len(str) : ~isDigit(str[i])
    THEN [err |-> TRUE, num |-> 0]
    ELSE [err |-> FALSE, num |-> atoiLoop(str, 0)]

Second == TicksPerSec
Minute == 60 * Second
Hour == 60 * Minute

\* time.ParseDuration on the strings parseDuration hands over to it here: a
\* lone unit or a number with the unit d, neither of which it accepts
ParseDuration(str) == [err |-> TRUE, d |-> 0]

\* main.go parseDuration
parseDuration(str) ==
    IF Len(str) = 0 THEN [err |-> TRUE, d |-> 0]
    ELSE LET last == str[Len(str)]
             n == Atoi(SubSeq(str, 1, Len(str) - 1))
         IN IF n.err THEN ParseDuration(str)
            ELSE IF last = "s" THEN [err |-> FALSE, d |-> n.num * Second]
            ELSE IF last = "m" THEN [err |-> FALSE, d |-> n.num * Minute]
            ELSE IF last = "h" THEN [err |-> FALSE, d |-> n.num * Hour]
            ELSE IF last = "d" THEN [err |-> FALSE, d |-> n.num * 24 * Hour]
            ELSE ParseDuration(str)

\* the bounds of the filter: --last when given and well formed, else --from
\* and --to where given
filterBounds(opts, now) ==
    IF Len(opts.Last) # 0
    THEN LET duration == parseDuration(opts.Last)
         IN IF ~duration.err THEN [from |-> now - duration.d, to |-> now]
            ELSE [from |-> ZeroTime, to |-> ZeroTime]
    ELSE [from |-> opts.From, to |-> opts.To]

\* filterDataByTime on the samples of one series
filterDataByTime(samples, opts, now) ==
    LET b == filterBounds(opts, now)
    IN IF IsZero(b.from) /\ IsZero(b.to) THEN samples
       ELSE SelectSeq(samples,
                      LAMBDA s : /\ ~(~IsZero(b.from) /\ s.Timestamp < b.from)
                                 /\ ~(~IsZero(b.to) /\ s.Timestamp > b.to))

\* the filter applied also under --all
filtersAlways(all) == TRUE

\* if !opts.All
filters(all) == ~all

\* Export, as far as the samples exported go
Export(samples, opts, now) ==
    IF filters(opts.All) THEN filterDataByTime(samples, opts, now) ELSE samples

\* the export runs 72 hours after the epoch of the model
ExportNow == 72 * Hour

\* the ages of the samples on disk
SampleAges == <<49 * Hour, 25 * Hour, 24 * Hour, 2 * Hour, 30 * Minute, 0>>

\* --last: absent, 1h, 24h, 7d, and a lone h that does not parse
LastFlags == {<<>>, <<"1", "h">>, <<"2", "4", "h">>, <<"7", "d">>, <<"h">>}

\* a sample of the series, as far as the filter reads it
exportSample(age) == [Timestamp |-> ExportNow - age]

RECURSIVE samplesAged(_, _)
samplesAged(i, kept) ==
    IF i > Len(SampleAges) THEN <<>>
    ELSE (IF i \in kept THEN <<exportSample(SampleAges[i])>> ELSE <<>>)
            \o samplesAged(i + 1, kept)

InitExport ==
    /\ \E kept \in SUBSET (1..Len(SampleAges)), last \in LastFlags,
          from \in {ZeroTime, ExportNow - 3 * Hour},
          to \in {ZeroTime, ExportNow - Hour}, all \in BOOLEAN :
        args = [fn |-> "Export",
                samples |-> samplesAged(1, kept),
                opts |-> [Last |-> last, From |-> from, To |-> to, All |-> all],
                now |-> ExportNow]
    /\ result = NoResult

ExportCall ==
    /\ args.fn = "Export"
    /\ ~result.present
    /\ result' = [present |-> TRUE,
                  samples |-> Export(args.samples, args.opts, args.now)]
    /\ UNCHANGED args

InitX == idleSession /\ idleSummary /\ InitMonitor /\ idleLoop /\ idleUI
         /\ InitExport
NextX == ExportCall
         /\ UNCHANGED <<sessionVars, summaryVars, monitorVars, loopVars, uiVars>>
SpecExport == InitX /\ [][NextX]_vars

----------------------------------------------------------------------------
(* ui.go: the SelectionModel and its Update.  A key is the string that      *)
(* msg.String() gives; the value of a text input is a string of characters; *)
(* the indices of containers and the cursor count from 0, as in the code.   *)

MaxInput == 1
windowSize == 10
intervalCharLimit == 4
nameCharLimit == 50
searchCharLimit == 100

\* the containers the runtime lists: ContainerInfo values
listedContainers ==
    <<[Name |-> <<"w", "e", "b">>, ID |-> <<"a", "1">>, Image |-> <<"n", "g", "i", "n", "x">>],
      [Name |-> <<"d", "b">>, ID |-> <<"b", "2">>, Image |-> <<"p", "g">>]>>

\* keys that carry a character, and the other keys
RuneKeys == {" ", "a", "q", "k", "j", "/", "5", "0"}
Keys == RuneKeys \cup {"ctrl+c", "esc", "up", "down", "pgup", "pgdown",
                       "home", "end", "enter", "backspace"}

\* textinput.New, then CharLimit
newInput(limit) == [value |-> <<>>, focus |-> FALSE, CharLimit |-> limit]

\* textinput.Model.SetValue
SetValue(input, str) ==
    [input EXCEPT !.value = IF Len(str) > input.CharLimit
                            THEN SubSeq(str, 1, input.CharLimit) ELSE str]

\* textinput.Model.Update on a key message: nothing without the focus
inputUpdate(input, key) ==
    IF ~input.focus THEN input
    ELSE IF key = "backspace"
    THEN [input EXCEPT !.value = IF Len(@) = 0 THEN @ ELSE SubSeq(@, 1, Len(@) - 1)]
    ELSE IF key \in RuneKeys /\ Len(input.value) < input.CharLimit
            /\ Len(input.value) < MaxInput
    THEN [input EXCEPT !.value = Append(@, key)]
    ELSE input

NewSelectionModel ==
    [containers |-> listedContainers,
     filteredContainers |-> listedContainers,
     selected |-> [i \in {} |-> FALSE],
     cursor |-> 0,
     intervalInput |-> newInput(intervalCharLimit),
     nameInput |-> newInput(nameCharLimit),
     searchInput |-> newInput(searchCharLimit),
     searchActive |-> FALSE,
     phase |-> 0,
     interval |-> 5,
     configName |-> <<>>,
     selectedContainers |-> <<>>,
     cancelled |-> FALSE,
     err |-> "",
     windowSize |-> windowSize,
     windowOffset |-> 0,
     quit |-> FALSE]

\* NewEditModel: config.Containers are names or ids of containers
NewEditModel(config) ==
    LET m == NewSelectionModel
    IN [m EXCEPT
          !.configName = config.Name,
          !.interval = config.Interval,
          !.intervalInput = SetValue(@, <<"5">>),
          !.selected =
              [i \in {i \in 0..(Len(m.containers) - 1) :
                        \E k \in 1..Len(config.Containers) :
                            \/ m.containers[i + 1].Name = config.Containers[k]
                            \/ m.containers[i + 1].ID = config.Containers[k]}
                 |-> TRUE]]

\* m.selected[i]: false for a key the map does not hold
isSelected(m, i) == i \in DOMAIN m.selected /\ m.selected[i]

\* m.selected[i] = v
setSelected(selected, i, v) ==
    [k \in (DOMAIN selected) \cup {i} |-> IF k = i THEN v ELSE selected[k]]

matchesQuery(c, query) ==
    \/ Contains(ToLower(c.Name), query)
    \/ Contains(ToLower(c.ID), query)
    \/ Contains(ToLower(c.Image), query)

filterContainers(m) ==
    LET query == ToLower(m.searchInput.value)
    IN IF query = <<>> THEN [m EXCEPT !.filteredContainers = m.containers]
       ELSE LET filtered == SelectSeq(m.containers, LAMBDA c : matchesQuery(c, query))
            IN IF m.cursor >= Len(filtered)
               THEN [m EXCEPT !.filteredContainers = filtered,
                              !.cursor = 0, !.windowOffset = 0]
               ELSE [m EXCEPT !.filteredContainers = filtered]

getActualContainerIndex(m, filteredIndex) ==
    IF filteredIndex < 0 \/ filteredIndex >= Len(m.filteredContainers) THEN -1
    ELSE LET id == m.filteredContainers[filteredIndex + 1].ID
             hits == {i \in 0..(Len(m.containers) - 1) : m.containers[i + 1].ID = id}
         IN IF hits = {} THEN -1
            ELSE CHOOSE i \in hits : \A j \in hits : i <= j

\* the actual indices of the filtered containers, those not found left out
filteredIndices(m) ==
    {getActualContainerIndex(m, i) : i \in 0..(Len(m.filteredContainers) - 1)} \ {-1}

finalizeSelection(m) ==
    LET chosen == SelectSeq([i \in 1..Len(m.containers) |-> i - 1],
                            LAMBDA i : isSelected(m, i))
    IN [m EXCEPT !.selectedContainers =
                     [k \in 1..Len(chosen) |-> m.containers[chosen[k] + 1].Name]]

\* the keys of search mode
searchKey(m, key) ==
    IF key = "esc"
    THEN filterContainers([m EXCEPT !.searchActive = FALSE,
                                    !.searchInput.focus = FALSE,
                                    !.searchInput.value = <<>>])
    ELSE IF key = "enter" THEN [m EXCEPT !.searchActive = FALSE]
    ELSE filterContainers([m EXCEPT !.searchInput = inputUpdate(@, key)])

\* "Update text inputs", the end of Update
updateInputs(m, key) ==
    IF m.phase = 1 THEN [m EXCEPT !.intervalInput = inputUpdate(@, key)]
    ELSE IF m.phase = 2 THEN [m EXCEPT !.nameInput = inputUpdate(@, key)]
    ELSE m

escKey(m) ==
    IF m.phase > 0 THEN [m EXCEPT !.phase = @ - 1]
    ELSE IF m.searchActive
    THEN filterContainers([m EXCEPT !.searchActive = FALSE, !.searchInput.value = <<>>])
    ELSE [m EXCEPT !.cancelled = TRUE, !.quit = TRUE]

cursorKey(m, key) ==
    LET n == Len(m.filteredContainers)
        browsing == m.phase = 0 /\ ~m.searchActive
    IN IF key \in {"up", "k"}
       THEN IF browsing /\ m.cursor > 0
            THEN [m EXCEPT !.cursor = @ - 1,
                           !.windowOffset = IF m.cursor - 1 < @ THEN m.cursor - 1 ELSE @]
            ELSE m
       ELSE IF key \in {"down", "j"}
       THEN IF browsing /\ m.cursor < n - 1
            THEN [m EXCEPT !.cursor = @ + 1,
                           !.windowOffset = IF m.cursor + 1 >= @ + m.windowSize
                                            THEN m.cursor + 1 - m.windowSize + 1 ELSE @]
            ELSE m
       ELSE IF key = "pgup"
       THEN IF browsing /\ m.cursor > 0
            THEN LET c == IF m.cursor - m.windowSize < 0 THEN 0
                          ELSE m.cursor - m.windowSize
                 IN [m EXCEPT !.cursor = c, !.windowOffset = c]
            ELSE m
       ELSE IF key = "pgdown"
       THEN IF browsing /\ m.cursor < n - 1
            THEN LET c == IF m.cursor + m.windowSize >= n THEN n - 1
                          ELSE m.cursor + m.windowSize
                 IN [m EXCEPT !.cursor = c,
                              !.windowOffset = IF c >= @ + m.windowSize
                                               THEN c - m.windowSize + 1 ELSE @]
            ELSE m
       ELSE IF key = "home"
       THEN IF browsing THEN [m EXCEPT !.cursor = 0, !.windowOffset = 0] ELSE m
       ELSE \* "end"
            IF browsing
            THEN [m EXCEPT !.cursor = n - 1,
                           !.windowOffset = IF n - 1 - m.windowSize + 1 < 0 THEN 0
                                            ELSE n - 1 - m.windowSize + 1]
            ELSE m

spaceKey(m) ==
    IF m.phase = 0 /\ ~m.searchActive /\ m.cursor < Len(m.filteredContainers)
    THEN LET actualIndex == getActualContainerIndex(m, m.cursor)
         IN IF actualIndex >= 0
            THEN [m EXCEPT !.selected = setSelected(@, actualIndex, ~isSelected(m, actualIndex))]
            ELSE m
    ELSE m

selectAllKey(m) ==
    IF m.phase = 0 /\ ~m.searchActive
    THEN LET allFilteredSelected == \A i \in filteredIndices(m) : isSelected(m, i)
         IN [m EXCEPT !.selected =
                [k \in (DOMAIN @) \cup filteredIndices(m) |->
                    IF k \in filteredIndices(m) THEN ~allFilteredSelected ELSE @[k]]]
    ELSE m

\* len(m.selected) == 0: the map holds no key
noKeySelected(m) == DOMAIN m.selected = {}

\* strings.ContainsAny(name, "/\\:*?\"<>|"), on the characters a key can type
invalidNameChars == {"/"}
ContainsAny(str, chars) == \E i \in 1..Len(str) : str[i] \in chars

enterKey(m, exists) ==
    IF m.phase = 0
    THEN IF noKeySelected(m)
         THEN [m EXCEPT !.err = "select at least one container"]
         ELSE [m EXCEPT !.err = "", !.phase = 1, !.intervalInput.focus = TRUE]
    ELSE IF m.phase = 1
    THEN LET val == IF m.intervalInput.value = <<>> THEN <<"5">>
                    ELSE m.intervalInput.value
             parsed == Atoi(val)
         IN IF parsed.err \/ parsed.num < 1
            THEN [m EXCEPT !.err = "invalid interval: must be a positive number"]
            ELSE IF m.configName # <<>>
            THEN [finalizeSelection([m EXCEPT !.interval = parsed.num, !.err = ""])
                    EXCEPT !.quit = TRUE]
            ELSE [m EXCEPT !.interval = parsed.num, !.err = "", !.phase = 2,
                           !.intervalInput.focus = FALSE, !.nameInput.focus = TRUE]
    ELSE LET name == m.nameInput.value
         IN IF name = <<>> THEN [m EXCEPT !.err = "configuration name is required"]
            ELSE IF ContainsAny(name, invalidNameChars)
            THEN [m EXCEPT !.err = "invalid characters in name"]
            ELSE IF exists THEN [m EXCEPT !.err = "configuration already exists"]
            ELSE [finalizeSelection([m EXCEPT !.configName = name, !.err = ""])
                    EXCEPT !.quit = TRUE]

\* SelectionModel.Update on a key message; exists is what ConfigExists
\* answers for the name typed
UpdateModel(m, key, exists) ==
    IF m.searchActive /\ m.phase = 0 THEN searchKey(m, key)
    ELSE IF key \in {"ctrl+c", "q"}
    THEN IF m.phase = 0 /\ ~m.searchActive
         THEN [m EXCEPT !.cancelled = TRUE, !.quit = TRUE]
         ELSE updateInputs(m, key)
    ELSE IF key = "/"
    THEN IF m.phase = 0 /\ ~m.searchActive
         THEN [m EXCEPT !.searchActive = TRUE, !.searchInput.focus = TRUE]
         ELSE updateInputs(m, key)
    ELSE IF key = "esc" THEN escKey(m)
    ELSE IF key \in {"up", "k", "down", "j", "pgup", "pgdown", "home", "end"}
    THEN updateInputs(cursorKey(m, key), key)
    ELSE IF key = " " THEN updateInputs(spaceKey(m), key)
    ELSE IF key = "a" THEN updateInputs(selectAllKey(m), key)
    ELSE IF key = "enter" THEN enterKey(m, exists)
    ELSE updateInputs(m, key)

\* the configurations "mdok edit" can open
EditConfigs ==
    {[Name |-> <<"m">>, Interval |-> 5, Containers |-> cs] :
        cs \in {<<<<"w", "e", "b">>>>, <<<<"w", "e", "b">>, <<"b", "2">>>>}}

InitSelection ==
    \/ ui = NewSelectionModel
    \/ \E config \in EditConfigs : ui = NewEditModel(config)

\* the program delivers a key to Update until Update returns tea.Quit
Update ==
    /\ ui # NoModel
    /\ ~ui.quit
    /\ \E key \in Keys, exists \in BOOLEAN : ui' = UpdateModel(ui, key, exists)

InitU == idleSession /\ idleSummary /\ InitMonitor /\ idleLoop /\ InitSelection
         /\ idleCall
NextU == Update /\ UNCHANGED <<sessionVars, summaryVars, monitorVars, loopVars, callVars>>

SpecSelection == InitU /\ [][NextU]_vars

----------------------------------------------------------------------------
(* stats.go, output.go, types.go: the aggregation and session functions     *)
(* and Monitor.shutdown, each called once on the same series, in any order. *)
(* result maps the name of a function called to what it returned.           *)

\* series of at most two samples, the empty one among them
ShortSeries == {ts \in TimestampSeqs : Len(ts) <= 2}

\* the float64 values the statistics are taken of
valuesOf(samples) == [i \in 1..Len(samples) |-> samples[i].NetRxBytes]

\* a summary with the fields RecommendInstance reads
ExampleSizing ==
    [present |-> TRUE, CPUPercent |-> [P95 |-> Rat(150, 1)],
     MemoryUsage |-> [P95 |-> Rat(1024, 1)], MemoryPercent |-> [P95 |-> Rat(10, 1)]]

NoDataFns ==
    {"CalculateSummary", "calculateStats", "percentile", "splitIntoSessions",
     "filterToCurrentSession", "filterToSession", "DetectWarnings",
     "RecommendInstance", "shutdown"}

InitNoData ==
    /\ \E i \in Intervals, ts \in ShortSeries, id \in {"", "s1"}, withSummary \in BOOLEAN :
         args = [fn |-> "noData",
                 d |-> fileOf(i, ts, id, FALSE),
                 warn |-> IF withSummary THEN ExampleOOM
                          ELSE [ExampleOOM EXCEPT !.Summary = NoSummary],
                 sizing |-> IF withSummary THEN ExampleSizing ELSE NoSummary]
    /\ result = <<>>

\* the call of f returned v
returned(f, v) ==
    /\ args.fn = "noData"
    /\ f \notin DOMAIN result
    /\ result' = [g \in (DOMAIN result) \cup {f} |-> IF g = f THEN v ELSE result[g]]
    /\ UNCHANGED args

CallCalculateSummary == returned("CalculateSummary", CalculateSummary(args.d.Samples))

CallCalculateStats == returned("calculateStats", calculateStats(valuesOf(args.d.Samples)))

CallPercentile ==
    \E p \in {95, 99} :
        returned("percentile", percentile(sortFloat64s(valuesOf(args.d.Samples)), p))

CallSplitIntoSessions == returned("splitIntoSessions", splitIntoSessions(args.d))

CallFilterToCurrentSession ==
    returned("filterToCurrentSession", filterToCurrentSession(args.d, args.d.EndTime))

CallFilterToSession ==
    \E id \in RequestIDs(args.d) :
        returned("filterToSession", filterToSession(args.d, id))

CallDetectWarnings == returned("DetectWarnings", DetectWarnings(args.warn))

CallRecommendInstance ==
    \E perIteration \in BOOLEAN :
        returned("RecommendInstance", RecommendInstance(args.sizing, "x86", perIteration))

CallShutdown ==
    returned("shutdown", shutdown(Some(args.d), NoData, args.d.EndTime + TicksPerSec))

InitE == idleSession /\ idleSummary /\ InitMonitor /\ idleLoop /\ idleUI
         /\ InitNoData
NextE ==
    \/ CallCalculateSummary /\ UNCHANGED <<sessionVars, summaryVars, monitorVars, loopVars, uiVars>>
    \/ CallCalculateStats /\ UNCHANGED <<sessionVars, summaryVars, monitorVars, loopVars, uiVars>>
    \/ CallPercentile /\ UNCHANGED <<sessionVars, summaryVars, monitorVars, loopVars, uiVars>>
    \/ CallSplitIntoSessions /\ UNCHANGED <<sessionVars, summaryVars, monitorVars, loopVars, uiVars>>
    \/ CallFilterToCurrentSession /\ UNCHANGED <<sessionVars, summaryVars, monitorVars, loopVars, uiVars>>
    \/ CallFilterToSession /\ UNCHANGED <<sessionVars, summaryVars, monitorVars, loopVars, uiVars>>
    \/ CallDetectWarnings /\ UNCHANGED <<sessionVars, summaryVars, monitorVars, loopVars, uiVars>>
    \/ CallRecommendInstance /\ UNCHANGED <<sessionVars, summaryVars, monitorVars, loopVars, uiVars>>
    \/ CallShutdown /\ UNCHANGED <<sessionVars, summaryVars, monitorVars, loopVars, uiVars>>

SpecNoData == InitE /\ [][NextE]_vars

----------------------------------------------------------------------------
(* Properties of the session functions, under SpecSession *)

\* the index of the first sample of session k, from the sample counts of the
\* sessions before it
RECURSIVE firstOf(_, _)
firstOf(S, k) == IF k <= 1 THEN 1 ELSE firstOf(S, k - 1) + S[k - 1].SampleCount

sampleCounts(S) == [k \in 1..Len(S) |-> S[k].SampleCount]

\* the gap threshold of the series, 2 * interval + 5 seconds, in ticks
threshold == (2 * data.Interval + 5) * TicksPerSec

gapAt(i) == data.Samples[i].Timestamp - data.Samples[i - 1].Timestamp

\* the samples of session k of S
sessionSamples(S, k) ==
    SubSeq(data.Samples, firstOf(S, k), firstOf(S, k) + S[k].SampleCount - 1)

\* C1: splitIntoSessions returns an ordered partition of a non-empty series
\* into non-empty contiguous sessions; a session starts at sample i >= 2
\* exactly when the gap before sample i is strictly greater than 2*I+5
\* seconds; the first session starts at the first sample, the counts add up to
\* the length of the series, one sample gives one session, and the series
\* I=5, t=0,5,10,120,125 gives sessions of 3 and 2 samples.
C1_SplitPartitions ==
    (out.op = "splitIntoSessions" /\ Len(data.Samples) > 0) =>
        LET S == out.res
            n == Len(data.Samples)
        IN /\ Len(S) >= 1
           /\ \A k \in 1..Len(S) : S[k].SampleCount >= 1
           /\ firstOf(S, Len(S) + 1) = n + 1
           /\ \A k \in 1..Len(S) :
                /\ S[k].StartTime = data.Samples[firstOf(S, k)].Timestamp
                /\ S[k].EndTime = data.Samples[firstOf(S, k + 1) - 1].Timestamp
           /\ \A i \in 2..n :
                (\E k \in 2..Len(S) : firstOf(S, k) = i) <=> (gapAt(i) > threshold)
           /\ (n = 1 => Len(S) = 1)
           /\ (data = ExampleFile => sampleCounts(S) = <<3, 2>>)

\* the example series was split in two, and the gap before its fourth sample
\* is the only one above the threshold
C1_Witness ==
    /\ out.op = "splitIntoSessions"
    /\ data = ExampleFile
    /\ sampleCounts(out.res) = <<3, 2>>
    /\ out.res[2].StartTime = 120 * TicksPerSec

\* C2: when the series carries a non-empty session identifier, every session
\* operation segments by the identifier and never by timestamp gaps:
\* filterToCurrentSession returns the whole series, filterToSession returns
\* the whole series for that identifier and nothing for another, and
\* GetAllSessions lists one session with all the samples.
C2_IdentifierTakesPrecedence ==
    (data.SessionID # "" /\ Len(data.Samples) > 0) =>
        /\ out.op = "filterToCurrentSession" => out.res.Samples = data.Samples
        /\ out.op = "filterToSession" =>
              out.res.Samples = IF out.id = data.SessionID THEN data.Samples ELSE <<>>
        /\ out.op = "GetAllSessions" =>
              /\ Len(out.res.sessions) = 1
              /\ out.res.sessions[1].SessionID = data.SessionID
              /\ out.res.sessions[1].SampleCount = Len(data.Samples)

\* C3: for a non-empty legacy series, filterToCurrentSession returns exactly
\* the samples of the last session of splitIntoSessions (same first index,
\* same count), and the whole series when no gap exceeds the threshold.
C3_CurrentIsLastSession ==
    (out.op = "filterToCurrentSession" /\ data.SessionID = "" /\ Len(data.Samples) > 0) =>
        LET S == splitIntoSessions(data)
            n == Len(data.Samples)
        IN /\ out.res.Samples = sessionSamples(S, Len(S))
           /\ Len(out.res.Samples) = S[Len(S)].SampleCount
           /\ out.res.Samples = SubSeq(data.Samples, n - Len(out.res.Samples) + 1, n)
           /\ (\A i \in 2..n : gapAt(i) <= threshold) => out.res.Samples = data.Samples

\* a legacy series of three sessions, of which the last was returned
C3_Witness ==
    /\ out.op = "filterToCurrentSession"
    /\ data.SessionID = ""
    /\ Len(data.Samples) > 0
    /\ Len(splitIntoSessions(data)) >= 3
    /\ out.res.Samples = <<Last(data.Samples)>>

\* what CalculateSummary owes for the counter values first and last
expectedTotal(first, last) == IF last >= first THEN last - first ELSE last

\* C4: when filterToCurrentSession or filterToSession returns fewer samples
\* than the series holds, the Summary and NetworkCost of the result are those
\* of the returned samples: the sample count is the number of returned
\* samples, the totals run from the first to the last returned sample, the
\* cost is that of the returned tx total, an empty result has neither, and
\* the cached summary of the whole series is not the one returned.
C4_PartialViewRecomputed ==
    (/\ out.op \in {"filterToCurrentSession", "filterToSession"}
     /\ Len(out.res.Samples) < Len(data.Samples)) =>
        LET r == out.res.Samples
            sum == out.res.Summary
        IN IF Len(r) = 0
           THEN ~sum.present /\ ~out.res.NetworkCost.present
           ELSE /\ sum.present
                /\ sum.SampleCount = Len(r)
                /\ sum.NetRxTotal = expectedTotal(r[1].NetRxBytes, Last(r).NetRxBytes)
                /\ sum.NetTxTotal = expectedTotal(r[1].NetTxBytes, Last(r).NetTxBytes)
                /\ sum.BlockReadTotal = expectedTotal(r[1].BlockRead, Last(r).BlockRead)
                /\ sum.BlockWriteTotal = expectedTotal(r[1].BlockWrite, Last(r).BlockWrite)
                /\ sum.Duration = RoundSeconds(out.res.EndTime - out.res.StartTime)
                /\ out.res.NetworkCost.present
                /\ out.res.NetworkCost.EgressGB = Rat(sum.NetTxTotal, GiB)
                /\ out.res.NetworkCost.EstimatedCostCentGiB = 9 * sum.NetTxTotal
                /\ sum # data.Summary

\* a file with a cached whole-series summary, viewed by its current session
C4_Witness ==
    /\ out.op = "filterToCurrentSession"
    /\ data.Summary.present
    /\ Len(out.res.Samples) > 0
    /\ Len(out.res.Samples) < Len(data.Samples)
    /\ out.res.Summary.present
    /\ out.res.Summary.SampleCount < data.Summary.SampleCount

\* C5: for a legacy series with non-decreasing timestamps, filterToSession
\* returns exactly the samples of the session of splitIntoSessions that has
\* the requested identifier, an empty list with no summary when no session
\* has it, and no two sessions of a series share an identifier.
C5_SessionById ==
    (out.op = "filterToSession" /\ data.SessionID = "" /\ Len(data.Samples) > 0) =>
        LET S == splitIntoSessions(data)
            hits == {k \in 1..Len(S) : S[k].SessionID = out.id}
        IN /\ \A j, k \in 1..Len(S) : j # k => S[j].SessionID # S[k].SessionID
           /\ hits = {} => (out.res.Samples = <<>> /\ ~out.res.Summary.present)
           /\ \A k \in hits :
                /\ out.res.Samples = sessionSamples(S, k)
                /\ Len(out.res.Samples) = S[k].SampleCount

\* a legacy series of several sessions, asked for its first session, which
\* starts within a second and has two samples
C5_Witness ==
    /\ out.op = "filterToSession"
    /\ data.SessionID = ""
    /\ Len(data.Samples) > 0
    /\ Len(splitIntoSessions(data)) >= 2
    /\ data.Samples[1].Timestamp = 1
    /\ out.id = "0"
    /\ Len(out.res.Samples) = 2
    /\ out.res.Samples = SubSeq(data.Samples, 1, 2)

----------------------------------------------------------------------------
(* Properties of the persisted series, under SpecMonitor *)

IsPrefix(a, b) == Len(a) <= Len(b) /\ SubSeq(b, 1, Len(a)) = a

\* C6: the persisted series of a container is append-only: across ticks,
\* persistence writes, shutdowns and restarts, every sample once persisted is
\* still there, in the same order, as a prefix of the series any later
\* persistence step writes.
C6_PersistedSeriesAppendOnly ==
    [][disk.present =>
          (disk'.present /\ IsPrefix(disk.d.Samples, disk'.d.Samples))]_vars

----------------------------------------------------------------------------
(* Properties of CalculateSummary, under SpecSummary *)

\* C7: each of the four cumulative totals of CalculateSummary is last - first
\* when last >= first and last otherwise; it is never negative and never a
\* wrapped-around value above the last reading; tx readings of 200, 300, 50
\* give 50.
C7_TotalsResetAware ==
    summary.present =>
        LET f == series[1]
            l == Last(series)
        IN /\ summary.NetRxTotal = expectedTotal(f.NetRxBytes, l.NetRxBytes)
           /\ summary.NetTxTotal = expectedTotal(f.NetTxBytes, l.NetTxBytes)
           /\ summary.BlockReadTotal = expectedTotal(f.BlockRead, l.BlockRead)
           /\ summary.BlockWriteTotal = expectedTotal(f.BlockWrite, l.BlockWrite)
           /\ \A t \in {summary.NetRxTotal, summary.NetTxTotal,
                        summary.BlockReadTotal, summary.BlockWriteTotal} : t >= 0
           /\ summary.NetRxTotal <= l.NetRxBytes
           /\ summary.NetTxTotal <= l.NetTxBytes
           /\ summary.BlockReadTotal <= l.BlockRead
           /\ summary.BlockWriteTotal <= l.BlockWrite
           /\ (series = ExampleSeries => summary.NetTxTotal = 50)

\* the series of the reset example was summarised
C7_Witness ==
    /\ series = ExampleSeries
    /\ summary.present
    /\ summary.NetTxTotal = 50
    /\ Last(series).NetTxBytes < series[1].NetTxBytes

----------------------------------------------------------------------------
(* Properties of the rate calculator, under SpecMonitor *)

\* the elapsed time of the last CollectStats call, in ticks
lastElapsed == lastCall.now - lastCall.prev.Sample.Timestamp

\* (cur - prev) / elapsedSeconds, over the integers
exactRate(cur, prevCounter) == Rat((cur - prevCounter) * TicksPerSec, lastElapsed)

allRatesZero(sample) ==
    /\ RatIsZero(sample.NetRxRate)
    /\ RatIsZero(sample.NetTxRate)
    /\ RatIsZero(sample.BlockReadRate)
    /\ RatIsZero(sample.BlockWriteRate)

\* C8: whenever CollectStats has a previous result and the elapsed time is
\* positive, each of the four rates is (current - previous) / elapsedSeconds
\* of its own counter, whatever the previous counters are.
C8_RatesFromPrevious ==
    (/\ lastCall.present
     /\ lastCall.res.present
     /\ lastCall.prev.present
     /\ lastElapsed > 0) =>
        LET smp == lastCall.res.Sample
            prev == lastCall.prev
        IN /\ RatEq(smp.NetRxRate, exactRate(smp.NetRxBytes, prev.PrevNetRx))
           /\ RatEq(smp.NetTxRate, exactRate(smp.NetTxBytes, prev.PrevNetTx))
           /\ RatEq(smp.BlockReadRate, exactRate(smp.BlockRead, prev.PrevBlockRd))
           /\ RatEq(smp.BlockWriteRate, exactRate(smp.BlockWrite, prev.PrevBlockWr))

\* C9: when a counter is lower than in the previous result, with the
\* baseline present (the previous rx, for the block rates the previous read
\* counter, above zero) and a positive elapsed time, the rate of the sample is
\* the negative number (current - previous) / elapsedSeconds.
C9_ResetRateNegative ==
    (/\ lastCall.present
     /\ lastCall.res.present
     /\ lastCall.prev.present
     /\ lastElapsed > 0) =>
        LET smp == lastCall.res.Sample
            prev == lastCall.prev
        IN /\ (prev.PrevNetRx > 0 /\ smp.NetRxBytes < prev.PrevNetRx) =>
                /\ RatIsNeg(smp.NetRxRate)
                /\ RatEq(smp.NetRxRate, exactRate(smp.NetRxBytes, prev.PrevNetRx))
           /\ (prev.PrevNetRx > 0 /\ smp.NetTxBytes < prev.PrevNetTx) =>
                /\ RatIsNeg(smp.NetTxRate)
                /\ RatEq(smp.NetTxRate, exactRate(smp.NetTxBytes, prev.PrevNetTx))
           /\ (prev.PrevBlockRd > 0 /\ smp.BlockRead < prev.PrevBlockRd) =>
                /\ RatIsNeg(smp.BlockReadRate)
                /\ RatEq(smp.BlockReadRate, exactRate(smp.BlockRead, prev.PrevBlockRd))
           /\ (prev.PrevBlockRd > 0 /\ smp.BlockWrite < prev.PrevBlockWr) =>
                /\ RatIsNeg(smp.BlockWriteRate)
                /\ RatEq(smp.BlockWriteRate, exactRate(smp.BlockWrite, prev.PrevBlockWr))

\* C10: the first sample a run collects for the container (CollectStats
\* called with no previous result) has its four rates at 0, and so has every
\* sample collected when the elapsed time since the previous result is not
\* positive.
C10_NoBaselineNoRate ==
    /\ (lastCall.present /\ lastCall.res.present) =>
          ((~lastCall.prev.present \/ lastElapsed <= 0) =>
              allRatesZero(lastCall.res.Sample))
    /\ (containerData.present /\ Len(containerData.d.Samples) > 0) =>
          allRatesZero(containerData.d.Samples[1])
    /\ (run.alive /\ containerData.present /\ Len(containerData.d.Samples) = 0) =>
          ~prevStats.present

\* a second sample taken at the instant of the first, with counters that
\* moved off a non-zero baseline, stored with rates of 0
C10_Witness ==
    /\ lastCall.present
    /\ lastCall.res.present
    /\ lastCall.prev.present
    /\ lastElapsed = 0
    /\ lastCall.prev.PrevNetRx > 0
    /\ lastCall.prev.PrevBlockRd > 0
    /\ lastCall.stats.rx # lastCall.prev.PrevNetRx
    /\ containerData.present
    /\ Len(containerData.d.Samples) = 2
    /\ containerData.d.Samples[2] = lastCall.res.Sample
    /\ allRatesZero(containerData.d.Samples[1])
    /\ allRatesZero(containerData.d.Samples[2])

----------------------------------------------------------------------------
(* Properties of the CPU percentage, under SpecCPU *)

\* C11: CollectStats sets the CPU percentage to 0 whenever the cumulative CPU
\* counter or the system counter of the snapshot is not strictly greater than
\* its embedded previous value (equal, or gone backwards); otherwise it is
\* (cpuDelta / systemDelta) * n * 100 with n = onlineCPUs if reported, else
\* the number of per-CPU counters if non-zero, else 1.
C11_CpuPercent ==
    (args.fn = "CollectStats" /\ result.present) =>
        LET st == args.st
            n == IF st.online > 0 THEN st.online
                 ELSE IF st.percpu > 0 THEN st.percpu ELSE 1
        IN IF st.cpu <= st.precpu \/ st.sys <= st.presys
           THEN RatIsZero(result.CPUPercent)
           ELSE RatEq(result.CPUPercent,
                      Rat((st.cpu - st.precpu) * n * 100, st.sys - st.presys))

----------------------------------------------------------------------------
(* Properties of proxy detection, under SpecProxy *)

\* the image or a name of the container holds one of the proxy patterns
matchesPattern(c) ==
    \E p \in 1..Len(proxyImagePatterns) :
        \/ Contains(ToLower(c.Image), proxyImagePatterns[p])
        \/ \E n \in 1..Len(c.Names) : Contains(ToLower(c.Names[n]), proxyImagePatterns[p])

\* C13: when the mdok.proxy label is present isProxyContainer is decided by
\* the label alone: false/no/0 give not-a-proxy even when the image or a name
\* holds a proxy pattern, true/1/yes give proxy even when nothing matches; the
\* image/name patterns are consulted only when the label is absent.
C13_LabelDecides ==
    (args.fn = "isProxyContainer" /\ result.present) =>
        LET c == args.c
            v == ToLower(c.Labels.val)
        IN IF c.Labels.has
           THEN /\ v \in {<<"f", "a", "l", "s", "e">>, <<"n", "o">>, <<"0">>} => ~result.proxy
                /\ v \in {<<"t", "r", "u", "e">>, <<"1">>, <<"y", "e", "s">>} => result.proxy
                /\ \A image \in Images, names \in NameLists :
                      isProxyContainer([c EXCEPT !.Image = image, !.Names = names])
                          = result.proxy
           ELSE result.proxy = matchesPattern(c)

\* a container labelled false whose image holds nginx was found not a proxy
C13_Witness ==
    /\ args.fn = "isProxyContainer"
    /\ result.present
    /\ args.c.Labels.has
    /\ args.c.Labels.val = <<"F", "a", "l", "s", "e">>
    /\ args.c.Image = <<"N", "g", "i", "n", "x", ":", "1">>
    /\ matchesPattern(args.c)
    /\ ~result.proxy

----------------------------------------------------------------------------
(* Properties of the classification, under SpecClassify *)

\* the destinations of the model that are private, loopback or link-local
PrivateTexts ==
    {"127.0.0.1", "10.0.0.5", "172.18.0.3", "172.18.0.4", "192.168.1.7",
     "169.254.1.1", "224.0.0.251", "::1", "fd00::3", "fe80::1"}
PublicTexts == {"172.32.0.1", "8.8.8.8", "2001:db8::1"}
UnspecifiedTexts == {"0.0.0.0", "::"}

\* the class the first matching rule gives a destination
expectedClass(text, peers) ==
    IF text \in peers.proxyIPs THEN "internet"
    ELSE IF text \in peers.containerIPs THEN "inter-container"
    ELSE IF text \in PrivateTexts THEN "internal"
    ELSE "internet"

classNames == <<"inter-container", "internal", "internet">>

\* the text of the destination of line i of a connection table
lineDst(lines, i) == String(parseHexIP(lines[i].hexIP))

\* the connections of a table: the lines after the header that hold a remote
\* address with a port
connections(lines) ==
    {i \in 2..Len(lines) :
        lines[i].fields >= 3 /\ lines[i].parts = 2 /\ Len(lines[i].hexIP) \in {4, 16}}

\* the flows of a conntrack table that leave the container
ownFlows(flows) ==
    {i \in 1..Len(flows) :
        /\ flows[i].marked /\ flows[i].src = SelfIP /\ flows[i].bytesOk
        /\ flows[i].dst \in PrivateTexts \cup PublicTexts \cup UnspecifiedTexts}

RECURSIVE flowBytes(_, _)
flowBytes(flows, S) ==
    IF S = {} THEN 0
    ELSE LET i == CHOOSE i \in S : TRUE
         IN flows[i].byteCount + flowBytes(flows, S \ {i})

----------------------------------------------------------------------------
(* Properties of getContainerIPs, under SpecPeers *)

\* the addresses container c has on its networks
addressesOf(c) ==
    {a \in {c.Networks[i].IPAddress : i \in 1..Len(c.Networks)}
            \cup {c.Networks[i].GlobalIPv6Address : i \in 1..Len(c.Networks)} : a # ""}

\* C14: getContainerIPs returns proxyIPs holding the addresses of every proxy
\* container other than the target, whether or not it shares a network with
\* the target, and containerIPs built only from the non-proxy containers
\* other than the target that share a network with it; a proxy contributes no
\* address to containerIPs, and a connection to a proxy's address is never
\* classified as inter-container.
C14_ProxiesKeptApart ==
    (args.fn = "getContainerIPs" /\ result.present /\ ~result.r.err) =>
        LET cs == args.docker.list.containers
            others == {cs[i] : i \in {j \in 1..Len(cs) : cs[j].ID # "target"}}
            proxies == {c \in others : isProxyContainer(c)}
            neighbours ==
                {c \in others \ proxies :
                    \E i \in 1..Len(c.Networks) :
                        c.Networks[i].netName \in args.docker.inspect.networks}
        IN /\ result.r.proxyIPs = UNION {addressesOf(c) : c \in proxies}
           /\ result.r.containerIPs = UNION {addressesOf(c) : c \in neighbours}
           /\ \A c \in proxies : \A a \in addressesOf(c) :
                /\ a \in result.r.proxyIPs
                /\ a \notin result.r.containerIPs
                /\ classOf(a, ParseIP(a), result.r.containerIPs, result.r.proxyIPs) = 3
           /\ ("172.18.0.3" \in UNION {addressesOf(c) : c \in proxies}) =>
                readProcNetFile(
                    [err |-> FALSE,
                     lines |-> <<HeaderLine, ProcLine(17, 2, hexOf(<<172, 18, 0, 3>>))>>],
                    result.r.containerIPs, result.r.proxyIPs).counts = <<0, 0, 1>>

\* a target that is itself a proxy, a proxy on a network the target is not
\* on and a plain container on the target's network: the far proxy alone in
\* proxyIPs, the plain container alone in containerIPs
C14_Witness ==
    /\ args.fn = "getContainerIPs"
    /\ result.present
    /\ ~result.r.err
    /\ args.docker.inspect.networks = {"front"}
    /\ result.r.proxyIPs = {"172.19.0.3"}
    /\ result.r.containerIPs = {"172.18.0.4", "fd00::4", "172.19.0.4"}
    /\ \E i \in 1..Len(args.docker.list.containers) :
          /\ args.docker.list.containers[i].ID = "target"
          /\ isProxyContainer(args.docker.list.containers[i])

----------------------------------------------------------------------------
(* Properties of getNetworkStats, under SpecNetwork *)

\* the connections of a file counted with the peers of the host known
hostCounts(file) ==
    readProcNetFile([err |-> FALSE, lines |-> file.lines],
                    {"172.18.0.3", "fd00::3"}, {"172.18.0.4", "fd00::4"}).counts

\* C15: whichever introspection step fails in a tick (resolving the peers'
\* addresses, resolving the container's own addresses, reading the conntrack
\* table, reading a /proc/net/tcp file), the counts that step feeds are zero
\* in the result of getNetworkStats, and CollectStats still returns the Sample
\* of the tick with a nil error.
C15_FailuresDegradeToZero ==
    (args.fn = "getNetworkStats" /\ result.present) =>
        LET smp == result.r.Sample
            failed == args.failed
            conn == <<smp.NetConnInterContainer, smp.NetConnInternal, smp.NetConnInternet>>
            bytes == <<smp.NetBytesInterContainer, smp.NetBytesInternal, smp.NetBytesInternet>>
            c4 == IF "tcp" \in failed THEN <<0, 0, 0>> ELSE hostCounts(args.env.files.tcp)
            c6 == IF "tcp6" \in failed THEN <<0, 0, 0>> ELSE hostCounts(args.env.files.tcp6)
        IN /\ ~result.r.err
           /\ (failed \cap {"inspect", "list"} # {}) =>
                (conn = <<0, 0, 0>> /\ bytes = <<0, 0, 0>> /\ smp.NetBytesSource = "")
           /\ (failed \cap {"self", "conntrack"} # {}) =>
                (bytes = <<0, 0, 0>> /\ smp.NetBytesSource # "conntrack")
           /\ (failed \cap {"inspect", "list"} = {}) =>
                conn = [k \in 1..3 |-> c4[k] + c6[k]]
           /\ ({"tcp", "tcp6"} \subseteq failed) => conn = <<0, 0, 0>>

\* the conntrack table and /proc/net/tcp could not be read while a tcp6
\* connection was open: no bytes, the tcp6 connection counted, no error
C15_Witness ==
    /\ args.fn = "getNetworkStats"
    /\ result.present
    /\ args.failed = {"conntrack", "tcp"}
    /\ Len(args.env.conntrack.flows) > 0
    /\ Len(args.env.files.tcp.lines) > 1
    /\ Len(args.env.files.tcp6.lines) > 1
    /\ ~result.r.err
    /\ result.r.Sample.NetBytesInterContainer = 0
    /\ result.r.Sample.NetConnInterContainer = 1
    /\ result.r.Sample.NetBytesSource = "estimated"

----------------------------------------------------------------------------
(* Properties of the network breakdown, under SpecBreakdown *)

RECURSIVE total(_, _)
total(samples, f) ==
    IF Len(samples) = 0 THEN 0 ELSE Head(samples)[f] + total(Tail(samples), f)

\* the breakdown b gives each class its share of the three totals
sharesOf(b, x, y, z) ==
    /\ b.present
    /\ RatEq(b.InterContainerPct, Rat(100 * x, x + y + z))
    /\ RatEq(b.InternalPct, Rat(100 * y, x + y + z))
    /\ RatEq(b.InternetPct, Rat(100 * z, x + y + z))

\* C16: the network breakdown of CalculateSummary comes from the summed
\* byte-level classification alone whenever a sample carries byte-level data,
\* from the summed connection counts only when no sample carries byte-level
\* data, and is absent when no sample carries either; when present its three
\* percentages are the shares of the chosen total and add up to 100.
C16_BytesBeforeConnections ==
    (args.fn = "CalculateSummary" /\ result.present) =>
        LET s == args.samples
            b == result.NetworkBreakdown
            bytes == <<total(s, "NetBytesInterContainer"), total(s, "NetBytesInternal"),
                       total(s, "NetBytesInternet")>>
            conns == <<total(s, "NetConnInterContainer"), total(s, "NetConnInternal"),
                       total(s, "NetConnInternet")>>
        IN /\ IF bytes[1] + bytes[2] + bytes[3] > 0
              THEN sharesOf(b, bytes[1], bytes[2], bytes[3])
              ELSE IF conns[1] + conns[2] + conns[3] > 0
              THEN sharesOf(b, conns[1], conns[2], conns[3])
              ELSE ~b.present
           /\ b.present =>
                /\ b.InterContainerPct.den = b.InternalPct.den
                /\ b.InternalPct.den = b.InternetPct.den
                /\ b.InterContainerPct.num + b.InternalPct.num + b.InternetPct.num
                     = 100 * b.InternetPct.den

\* one sample with conntrack bytes among samples with connection counts: the
\* breakdown is that of the bytes, 75% inter-container and 25% internet
C16_Witness ==
    /\ args.fn = "CalculateSummary"
    /\ result.present
    /\ Len(args.samples) = 3
    /\ args.samples[1] = NetSample(<<0, 0, 0>>, <<0, 0, 5>>)
    /\ args.samples[2] = NetSample(<<3, 0, 1>>, <<1, 1, 0>>)
    /\ args.samples[3] = NetSample(<<0, 0, 0>>, <<0, 0, 5>>)
    /\ result.NetworkBreakdown.present
    /\ RatEq(result.NetworkBreakdown.InterContainerPct, Rat(75, 1))
    /\ RatEq(result.NetworkBreakdown.InternetPct, Rat(25, 1))

----------------------------------------------------------------------------
(* Properties of calculateStats, under SpecStats *)

\* the k-th smallest of the values, k counted from 1
kthSmallest(values, k) ==
    CHOOSE v \in {values[i] : i \in 1..Len(values)} :
        /\ Cardinality({i \in 1..Len(values) : values[i] < v}) < k
        /\ Cardinality({i \in 1..Len(values) : values[i] <= v}) >= k

\* the interpolation at rank p * (n - 1), p in hundredths
expectedPercentile(values, p) ==
    LET n == Len(values)
        whole == (p * (n - 1)) \div 100
        part == (p * (n - 1)) % 100
    IN IF part = 0 THEN Rat(kthSmallest(values, whole + 1), 1)
       ELSE Rat(kthSmallest(values, whole + 1) * (100 - part)
                    + kthSmallest(values, whole + 2) * part, 100)

\* C17: for a non-empty list calculateStats returns the smallest and the
\* largest value as min and max, the arithmetic mean as avg, and as p95 and
\* p99 the linear interpolation at rank p*(n-1) between the two bracketing
\* values of the ascending sort (the value itself when n = 1, sorted[rank]
\* when the rank is an integer); the order of the input is left unchanged.
C17_StatsOfValues ==
    (args.fn = "calculateStats" /\ result.present) =>
        LET values == args.given
            n == Len(values)
            st == result.stats
        IN /\ \E i \in 1..n : values[i] = st.Min
           /\ \E i \in 1..n : values[i] = st.Max
           /\ \A i \in 1..n : st.Min <= values[i] /\ values[i] <= st.Max
           /\ RatEq(st.Avg, Rat(sumOf(values), n))
           /\ RatEq(st.P95, expectedPercentile(values, 95))
           /\ RatEq(st.P99, expectedPercentile(values, 99))
           /\ (n = 1 => RatEq(st.P95, Rat(values[1], 1)) /\ RatEq(st.P99, Rat(values[1], 1)))
           /\ (values = ExampleValues => RatEq(st.P95, Rat(20, 1)))
           /\ args.values = values

\* three unsorted values: p95 lies nine tenths of the way from 1 to 3
C17_Witness ==
    /\ args.fn = "calculateStats"
    /\ result.present
    /\ args.given = <<3, 0, 1>>
    /\ args.values = <<3, 0, 1>>
    /\ result.stats.Min = 0
    /\ result.stats.Max = 3
    /\ RatEq(result.stats.P95, Rat(28, 10))
    /\ RatEq(result.stats.P99, Rat(296, 100))

----------------------------------------------------------------------------
(* Properties of DetectWarnings, under SpecWarnings *)

OOMRiskText == "Memory usage reached 95%+ of limit - OOM risk"
ApproachingText == "Memory usage P95 above 80% of limit"

warningTexts(w) == [i \in 1..Len(w) |-> w[i].text]
hasWarning(w, text) == \E i \in 1..Len(w) : w[i].text = text

\* C18: the list DetectWarnings returns never holds both the OOM-risk warning
\* and the P95-above-80%-of-limit warning; with a memory limit set and max
\* memory usage >= 0.95 * limit (limit 512 MiB, max 500 MiB) it holds the
\* OOM-risk warning and not the approaching-limit warning, whatever the P95.
C18_OOMExcludesApproaching ==
    (args.fn = "DetectWarnings" /\ result.present) =>
        LET w == result.warnings
            d == args.data
        IN /\ ~(hasWarning(w, OOMRiskText) /\ hasWarning(w, ApproachingText))
           /\ (/\ d.Summary.present
               /\ d.Limits.MemLimit > 0
               /\ 100 * d.Summary.MemoryUsage.Max >= 95 * d.Limits.MemLimit) =>
                 (hasWarning(w, OOMRiskText) /\ ~hasWarning(w, ApproachingText))
           /\ (d = ExampleOOM) =>
                 (hasWarning(w, OOMRiskText) /\ ~hasWarning(w, ApproachingText))

\* limit 20, max 19 and P95 19: both thresholds are met, the OOM-risk warning
\* alone is returned
C18_Witness ==
    /\ args.fn = "DetectWarnings"
    /\ result.present
    /\ args.data.Limits.MemLimit = 20
    /\ args.data.Summary.present
    /\ args.data.Summary.MemoryUsage.Max = 19
    /\ args.data.Summary.MemoryUsage.P95 = 19
    /\ hasWarning(result.warnings, OOMRiskText)
    /\ ~hasWarning(result.warnings, ApproachingText)

\* the text of rule k when its condition holds
expectedWarning(cond, text) == IF cond THEN <<text>> ELSE <<>>

\* C19: DetectWarnings is a pure function of the summary and the limits: it
\* returns, in the order of the rules, exactly one message for each of the
\* rules 1-8 whose condition holds and nothing else; a second call on the
\* same input returns the same list, and the input is left unchanged.
C19_RulesInOrder ==
    (args.fn = "DetectWarnings" /\ result.present /\ args.data.Summary.present) =>
        LET s == args.data.Summary
            l == args.data.Limits
            memSet == l.MemLimit > 0
            rule1 == memSet /\ 100 * s.MemoryUsage.Max >= 95 * l.MemLimit
            rule2 == memSet /\ ~rule1 /\ 100 * s.MemoryUsage.P95 >= 80 * l.MemLimit
            rule3 == ~memSet /\ s.MemoryPercent.P95 > 80
            rule4 == s.CPUPercent.P95 > 90
            rule5 == s.CPUPercent.Max >= 100
            rule6 == /\ l.CPUQuota > 0 /\ l.CPUPeriod > 0
                     /\ 10 * s.CPUPercent.P95 * l.CPUPeriod >= 9 * 100 * l.CPUQuota
            rule7 == s.NetTxTotal.mib * 1024 + (IF s.NetTxTotal.bytes > 0 THEN 1 ELSE 0)
                        > 10 * 1024 * 1024
            rule8 == l.PidsLimit > 0 /\ 10 * s.PidsCount.Max >= 9 * l.PidsLimit
        IN /\ warningTexts(result.warnings) =
                expectedWarning(rule1, OOMRiskText)
                \o expectedWarning(rule2, ApproachingText)
                \o expectedWarning(rule3, "High memory usage with no memory limit set")
                \o expectedWarning(rule4, "CPU usage P95 above 90%")
                \o expectedWarning(rule5, "CPU usage reached 100% - possible throttling")
                \o expectedWarning(rule6, "CPU usage near quota limit (%.1f%%)")
                \o expectedWarning(rule7, "High egress traffic: %.2f GB")
                \o expectedWarning(rule8, "PID count near limit")
           /\ result.warnings = result.first
           /\ result.warnings = DetectWarnings(args.data)

\* a second call, on a summary at every threshold at once: five warnings both
\* times
C19_Witness ==
    /\ args.fn = "DetectWarnings"
    /\ result.present
    /\ result.calls = 2
    /\ args.data.Summary.present
    /\ args.data.Limits.MemLimit = 20
    /\ args.data.Summary.MemoryUsage = [Max |-> 18, P95 |-> 16]
    /\ args.data.Summary.CPUPercent = [Max |-> 100, P95 |-> 45]
    /\ args.data.Limits.CPUQuota = 1
    /\ args.data.Summary.NetTxTotal.bytes = 1
    /\ args.data.Summary.PidsCount.Max = 9
    /\ args.data.Limits.PidsLimit = 10
    /\ warningTexts(result.warnings) =
          <<ApproachingText, "CPU usage reached 100% - possible throttling",
            "CPU usage near quota limit (%.1f%%)", "High egress traffic: %.2f GB",
            "PID count near limit">>
    /\ result.first = result.warnings

----------------------------------------------------------------------------
(* Properties of RecommendInstance, under SpecRecommend *)

\* entry i of the catalog is of the architecture and has
\* vCPU >= p95(cpu%)/100 * 1.2 and memoryGB >= p95(memory)/2^30 * 1.2
qualifies(i, s, arch) ==
    LET inst == awsInstanceTypes[i]
        cpu == s.CPUPercent.P95
        mem == s.MemoryUsage.P95
    IN /\ inst.Arch = arch
       /\ inst.VCPU * 100 * 10 * cpu.den >= 12 * cpu.num
       /\ inst.MemoryGB * 1024 * 10 * mem.den >= 12 * mem.num

\* C20: when some catalog entry of the requested architecture has enough
\* vCPUs and memory for the P95 usage plus 20%, RecommendInstance returns the
\* first such entry in the catalog's order; requirements of 1.1 cores and
\* 1.1 GiB return the second entry, the first one having 1 GB only.
C20_FirstQualifyingEntry ==
    (args.fn = "RecommendInstance" /\ result.present /\ args.summary.present) =>
        LET rec == result.recommendation
            s == args.summary
            fitting == {i \in 1..Len(awsInstanceTypes) : qualifies(i, s, args.arch)}
        IN /\ fitting # {} =>
                \E i \in fitting :
                    /\ \A j \in fitting : i <= j
                    /\ rec.present
                    /\ rec.InstanceType = awsInstanceTypes[i].Type
                    /\ rec.VCPU = awsInstanceTypes[i].VCPU
                    /\ rec.MemoryGB = awsInstanceTypes[i].MemoryGB
                    /\ rec.HourlyPrice = awsInstanceTypes[i].Hourly
                    /\ rec.Architecture = args.arch
                    /\ rec.Reason # "Resource requirements exceed common instance sizes"
           /\ (RatEq(s.CPUPercent.P95, Rat(275, 3)) /\ RatEq(s.MemoryUsage.P95, Rat(2816, 3))) =>
                /\ rec.present
                /\ rec.InstanceType = (IF args.arch = "x86" THEN "t3.small" ELSE "t4g.small")
                /\ rec.VCPU = 2
                /\ rec.MemoryGB = 2

\* 1.1 cores and 1.1 GiB required of the x86 catalog: t3.small is returned
C20_Witness ==
    /\ args.fn = "RecommendInstance"
    /\ args.arch = "x86"
    /\ args.summary.present
    /\ args.summary.CPUPercent.P95 = Rat(275, 3)
    /\ args.summary.MemoryUsage.P95 = Rat(2816, 3)
    /\ result.present
    /\ result.recommendation.present
    /\ result.recommendation.InstanceType = "t3.small"
    /\ awsInstanceTypes[2].Type = "t3.small"
    /\ ~qualifies(1, args.summary, "x86")

\* the entries of the catalog of an architecture
partition(arch) == {i \in 1..Len(awsInstanceTypes) : awsInstanceTypes[i].Arch = arch}

\* C21: when no catalog entry of the requested architecture has enough vCPUs
\* and memory, RecommendInstance returns a recommendation all the same: the
\* largest entry of that architecture (no other entry of it has more vCPUs or
\* more memory), with the reason that the requirements exceed common sizes.
C21_FallbackIsLargest ==
    (args.fn = "RecommendInstance" /\ result.present /\ args.summary.present) =>
        LET rec == result.recommendation
            own == partition(args.arch)
        IN (\A i \in own : ~qualifies(i, args.summary, args.arch)) =>
              /\ rec.present
              /\ rec.Reason = "Resource requirements exceed common instance sizes"
              /\ \E i \in own :
                    /\ rec.InstanceType = awsInstanceTypes[i].Type
                    /\ rec.VCPU = awsInstanceTypes[i].VCPU
                    /\ rec.MemoryGB = awsInstanceTypes[i].MemoryGB
              /\ \A j \in own :
                    /\ awsInstanceTypes[j].VCPU <= rec.VCPU
                    /\ awsInstanceTypes[j].MemoryGB <= rec.MemoryGB

\* C30: every recommendation RecommendInstance returns carries the type, the
\* vCPUs, the memory and the hourly price of one entry of the catalog of the
\* requested architecture, whether an entry qualified or none did; an x86
\* recommendation is never an ARM entry, nor an ARM one an x86 entry.
C30_ResultInPartition ==
    (args.fn = "RecommendInstance" /\ result.present
        /\ result.recommendation.present) =>
        LET rec == result.recommendation
        IN /\ rec.Architecture = args.arch
           /\ \E i \in partition(args.arch) :
                 /\ rec.InstanceType = awsInstanceTypes[i].Type
                 /\ rec.VCPU = awsInstanceTypes[i].VCPU
                 /\ rec.MemoryGB = awsInstanceTypes[i].MemoryGB
                 /\ rec.HourlyPrice = awsInstanceTypes[i].Hourly

----------------------------------------------------------------------------
(* Properties of the collection loop, under SpecLoop *)

samplesOf(c) == IF containerData[c].present THEN containerData[c].d.Samples ELSE <<>>
fetching(c) == fetch[c].pc \notin {"none", "done"}
inCollection == mainLoop.pc \in {"collectAllStats", "Wait"}
inShutdown == mainLoop.pc \in {"shutdown", "summarizing", "Close", "return"}

\* C22: in every collection saveData starts only when the fetch of every
\* container of that collection has finished; the fetches of the next tick
\* and the shutdown start only when that saveData has completed; a container
\* gains at most one sample in a collection.
C22_SaveAfterFetches ==
    (mainLoop.pc # "none") =>
        /\ mainLoop.pc \in {"saveData", "saving"} => \A c \in Names : ~fetching(c)
        /\ \A c \in Names :
              fetching(c) => /\ inCollection
                             /\ mainLoop.saves = mainLoop.collections - 1
        /\ inCollection => mainLoop.saves = mainLoop.collections - 1
        /\ (inShutdown \/ mainLoop.pc = "select") =>
              /\ mainLoop.saves = mainLoop.collections
              /\ \A c \in Names : ~fetching(c)
        /\ \A c \in Names :
              /\ Len(samplesOf(c)) <= Len(mainLoop.base[c].Samples) + 1
              /\ Len(samplesOf(c)) <= mainLoop.collections

\* the second collection is being saved, both fetches done, two samples each
C22_Witness ==
    /\ mainLoop.pc = "saving"
    /\ mainLoop.collections = 2
    /\ mainLoop.saves = 1
    /\ \A c \in Names : fetch[c].pc = "done" /\ Len(samplesOf(c)) = 2

\* the fetch of c has written its result
wrote(c) == fetch[c].pc = "written" \/ (fetch[c].pc = "done" /\ fetch[c].cause = "ok")

\* C23: however the fetches of a collection interleave, a container whose
\* fetch fails (not running, inspect error, stats error) keeps its samples and
\* its baseline, a container whose fetch succeeds has its own new sample
\* appended and its baseline replaced by its own result, and a failure does
\* not end the loop.
C23_FailuresContained ==
    (mainLoop.pc \in {"collectAllStats", "Wait", "saveData"}) =>
        /\ \A c \in Names :
              /\ fetch[c].pc = "done" => fetch[c].cause \in Causes \cup {"none"}
              /\ (fetch[c].pc = "done" /\ fetch[c].cause \in Causes \ {"ok"}) =>
                    /\ samplesOf(c) = mainLoop.base[c].Samples
                    /\ prevStats[c] = mainLoop.base[c].prev
              /\ (fetch[c].pc = "done" /\ fetch[c].cause = "ok") =>
                    /\ samplesOf(c) =
                          Append(mainLoop.base[c].Samples, fetch[c].stats.Sample)
                    /\ prevStats[c] = fetch[c].stats
                    /\ fetch[c].stats =
                          CollectStats(RuntimeStats, clock, mainLoop.base[c].prev).result
              /\ ~wrote(c) =>
                    /\ samplesOf(c) = mainLoop.base[c].Samples
                    /\ prevStats[c] = mainLoop.base[c].prev
        /\ mainLoop.err = "none"

\* second collection: the fetch of web met a stats error, the one of db
\* succeeded; web keeps its one sample, db has two
C23_Witness ==
    /\ mainLoop.pc = "saveData"
    /\ mainLoop.collections = 2
    /\ fetch["web"].pc = "done" /\ fetch["web"].cause = "stats error"
    /\ fetch["db"].pc = "done" /\ fetch["db"].cause = "ok"
    /\ Len(samplesOf("web")) = 1
    /\ Len(samplesOf("db")) = 2
    /\ prevStats["web"] = mainLoop.base["web"].prev
    /\ prevStats["db"] # mainLoop.base["db"].prev

\* C24: the shared state is accessed under the mutex wherever a collection
\* goroutine may be writing it: a caller that got the series from
\* GetContainerData never reads the samples of a container while a collection
\* goroutine is appending to them.
C24_ReadsUnderMutex ==
    (reader.pc = "reading") => fetch[reader.name].pc # "locked"

\* C25: on either exit of Monitor.Run the shutdown sequence runs exactly once
\* and in this order: the ticker is stopped, the final summary of every
\* container with samples is computed and written, and only then the client is
\* closed; no collection starts once the shutdown has begun.
C25_ShutdownOnceInOrder ==
    (mainLoop.pc # "none") =>
        /\ mainLoop.shutdowns <= 1
        /\ (mainLoop.pc = "done" /\ mainLoop.err = "nil") =>
              mainLoop.shutdowns = 1 /\ mainLoop.cause \in {"signal", "stop"}
        /\ mainLoop.pc \in {"summarizing", "Close", "return"} =>
              mainLoop.ticker = "stopped"
        /\ mainLoop.docker = "closed" =>
              /\ mainLoop.ticker = "stopped"
              /\ \A c \in Names :
                    Len(samplesOf(c)) > 0 =>
                        /\ containerData[c].d.Summary.present
                        /\ disk[c] = containerData[c]
        /\ mainLoop.shutdowns > 0 =>
              /\ ~inCollection
              /\ mainLoop.pc \notin {"saveData", "saving"}
              /\ \A c \in Names : ~fetching(c)

\* C26: when the client cannot be made, or none of the configured containers
\* resolves at startup, the run does not start: Run returns an error before
\* the first collection and before its loop.
C26_NoRunWithoutContainers ==
    (mainLoop.pc \notin {"none", "RunMonitor", "Run"}) =>
        /\ mainLoop.docker = "none" =>
              mainLoop.pc = "done" /\ mainLoop.err = "error"
                  /\ mainLoop.collections = 0
        /\ (\A c \in Names : ~containerData[c].present) =>
              mainLoop.pc = "done" /\ mainLoop.err = "error"
                  /\ mainLoop.collections = 0

----------------------------------------------------------------------------
(* Properties of export, under SpecExport *)

\* C28: export without any time filter (no --last, --from, --to, --all)
\* behaves as --last 24h: the exported series holds exactly the samples of
\* the 24 hours before the export.
C28_DefaultLast24h ==
    (/\ args.fn = "Export"
     /\ result.present
     /\ Len(args.opts.Last) = 0
     /\ IsZero(args.opts.From)
     /\ IsZero(args.opts.To)
     /\ ~args.opts.All) =>
            /\ result.samples =
                  SelectSeq(args.samples,
                            LAMBDA s : /\ s.Timestamp >= args.now - 24 * Hour
                                       /\ s.Timestamp <= args.now)
            /\ result.samples =
                  Export(args.samples, [args.opts EXCEPT !.Last = <<"2", "4", "h">>],
                         args.now)


----------------------------------------------------------------------------
(* Properties of the selection screen, under SpecSelection *)

\* a container is selected now
someSelected(m) == \E i \in 0..(Len(m.containers) - 1) : isSelected(m, i)

\* the program ended with a configuration to save
finishedWithConfig(m) == m.quit /\ ~m.cancelled

\* C29: the screen leaves phase 0 on enter only while at least one container
\* is selected, and it ends with a configuration only then: with every
\* container unselected, enter in phase 0 sets the error "select at least
\* one container" and the phase stays 0, so that the list of containers of a
\* saved configuration is never empty.
C29_EnterNeedsSelection ==
    /\ ui.phase \in {1, 2} => someSelected(ui)
    /\ finishedWithConfig(ui) => Len(ui.selectedContainers) > 0

----------------------------------------------------------------------------
(* Properties of the functions on an empty series, under SpecNoData *)

\* f was called on the series and returned r
gave(f) == args.fn = "noData" /\ f \in DOMAIN result

emptySeries == args.fn = "noData" /\ Len(args.d.Samples) = 0

\* C27: on an empty sample sequence CalculateSummary returns nil,
\* calculateStats a zero Summary and percentile 0, splitIntoSessions returns
\* no session, filterToCurrentSession and filterToSession return the data
\* given, which carries no summary, and shutdown computes no summary and
\* writes nothing for the container; with no summary DetectWarnings returns
\* no warning and RecommendInstance nil.
C27_NoDataResults ==
    /\ emptySeries /\ gave("CalculateSummary") => ~result["CalculateSummary"].present
    /\ emptySeries /\ gave("calculateStats") =>
         LET s == result["calculateStats"]
         IN /\ s.Min = 0 /\ s.Max = 0
            /\ RatIsZero(s.Avg) /\ RatIsZero(s.P95) /\ RatIsZero(s.P99)
    /\ emptySeries /\ gave("percentile") => RatIsZero(result["percentile"])
    /\ emptySeries /\ gave("splitIntoSessions") => Len(result["splitIntoSessions"]) = 0
    /\ emptySeries /\ gave("filterToCurrentSession") =>
         /\ result["filterToCurrentSession"] = args.d
         /\ ~result["filterToCurrentSession"].Summary.present
    /\ emptySeries /\ gave("filterToSession") =>
         /\ result["filterToSession"] = args.d
         /\ ~result["filterToSession"].Summary.present
    /\ emptySeries /\ gave("shutdown") =>
         /\ ~result["shutdown"].cd.d.Summary.present
         /\ ~result["shutdown"].disk.present
    /\ gave("DetectWarnings") /\ ~args.warn.Summary.present =>
         Len(result["DetectWarnings"]) = 0
    /\ gave("RecommendInstance") /\ ~args.sizing.present =>
         ~result["RecommendInstance"].present

\* every function was called on the empty series, without a summary
C27_Witness ==
    /\ emptySeries
    /\ ~args.warn.Summary.present
    /\ ~args.sizing.present
    /\ DOMAIN result = NoDataFns
====
